---- MODULE Spec2Model ----
(***************************************************************************)
(* A model of the ProcessGPT agent SDK worker.                             *)
(*                                                                         *)
(* The repository holds two servers.  variant = "F" is the server of       *)
(* processgpt_agent_sdk/processgpt_agent_framework.py (polling loop,       *)
(* prepare_context, the event coalescer, the failure boundary of           *)
(* process_todolist_item).  variant = "S" is the server of                 *)
(* processgpt_agent_sdk/server.py (polling loop, executor raced against    *)
(* the cancellation watcher, event-processing background tasks).           *)
(*                                                                         *)
(* Scheduling is asyncio's: one cooperative loop.  A step of the model is  *)
(* the code a coroutine runs between two suspension points.  Tasks made    *)
(* with create_task start in creation order (the variable ready), and the  *)
(* main coroutine resumes from a store call or a sleep only after the      *)
(* tasks created before it suspended have run their first step.            *)
(*                                                                         *)
(* A store call goes through _async_retry: up to Retries attempts, each of *)
(* which either is applied by the store or fails leaving the store as it   *)
(* was.                                                                    *)
(*                                                                         *)
(* Three functions are also followed alone, each under a specification of  *)
(* its own in which the worker stays as constructed: _async_retry          *)
(* (variant = "R", SpecR), ProcessGPTEventQueue.enqueue_event              *)
(* (variant = "E", SpecE) and the try block of process_todolist_item up to *)
(* the call of execute (variant = "P", SpecP).  The coalescer is also      *)
(* followed with a producer that enqueues at any moment (variant = "C",    *)
(* SpecC), and several worker processes polling one store are followed     *)
(* under SpecW.  LiveC and LiveF are SpecC and SpecF on an event loop that *)
(* keeps running.                                                          *)
(***************************************************************************)
EXTENDS Integers, Sequences, FiniteSets, TLC

\* ------------------------------------------------------------- bounds
NumTasks == 2
MaxEvents == 2
NumWorkers == 2

\* The polls of the watcher that is followed alone.
MaxPolls == 3

\* ---------------------------------------------------------- constants
COALESCE_BATCH == 3
Retries == 3
\* base_delay and the upper end of the jitter, in milliseconds
BaseDelayMs == 800
JitterMaxMs == 300

\* The parameters of core/database.py record_event that have no default.
RecordEventRequired == 2

Tasks == 1..NumTasks
NoTask == 0

VARIABLES
    variant,        \* "F" | "S": which server runs ("R", "E", "P", "C": a part alone)
    pc,             \* the suspension point of run()
    cur,            \* the task run() is processing (NoTask: none)
    is_running,     \* ProcessGPTAgentServer.is_running
    shutdown_event, \* ProcessGPTAgentServer._shutdown_event (F only)
    stopCalled,     \* history: stop() has been called
    status,         \* store: todolist.draft_status of each task
    exec,           \* state of executor.execute of each task
    emitted,        \* number of events the executor has emitted so far
    emittedSeq,     \* history: coalesced records in the order they were produced
    ready,          \* tasks made with asyncio.create_task, not yet started (FIFO)
    inflight,       \* store calls of background tasks that are in progress
    buf,            \* _EVENT_BUF
    timer,          \* _EVENT_TIMER: "none" | "armed" | "fired"
    issued,         \* history: the records passed to record_events_bulk, call after call
    bulkInFlight,   \* number of record_events_bulk calls of bg flushes in progress
    liveTimers,     \* number of call_later handles neither run nor cancelled
    lastBulk,       \* history: number of records of the latest record_events_bulk call
    errEvents,      \* store: the event_type=error rows of each task
    failedUpdates,  \* store: number of applied updates to draft_status=FAILED
    exhausted,      \* history: the store calls every attempt of which failed
    exc,            \* the exception the failure path is handling
    shutdownFlushes,\* number of _flush_events_now calls made by run() on exit
    watcher,        \* S: state of the _watch_cancellation task of the current task
    cancelObserved, \* S: the tasks whose watcher has read cancelled / fb_requested
    saveCalls,      \* S: number of save_task_result calls issued, per task
    watchLog,       \* S: history: the calls each task's watcher made after its read
    retry,          \* a call of _async_retry made alone: its inputs and its progress
    enq,            \* a call of enqueue_event made alone: its event and its progress
    prep,           \* the try block of process_todolist_item up to execute, run alone
    fleet,          \* several worker processes polling one store
    art,            \* the artifact saves of one task and the end of its processing, followed alone
    watch,          \* the status polls of one cancellation watcher (S), followed alone
    handler         \* one call of process_event_message (S), followed alone

\* The state of the worker and of the store.
wvars == <<variant, pc, cur, is_running, shutdown_event, stopCalled, status,
           exec, emitted, emittedSeq, ready, inflight, buf, timer, issued,
           bulkInFlight, errEvents, failedUpdates, exc, shutdownFlushes,
           watcher, cancelObserved, saveCalls, watchLog, exhausted, lastBulk, liveTimers>>

vars == <<wvars, retry, enq, prep, fleet, art, watch, handler>>

\* The state of the helper functions when they are called alone.
hvars == <<retry, enq, prep, fleet, art, watch, handler>>

\* What only the S server uses.
svars == <<watcher, cancelObserved, saveCalls, watchLog>>

NoExc == [cls |-> "none", original |-> "none"]

\* ------------------------------------------------------- retry helper
\* No call of _async_retry is being followed.
NoCall == [pc |-> "idle"]

\* One outcome per attempt: TRUE when the attempt is applied by the store.
Attempts == [1..Retries -> BOOLEAN]

\* _async_retry returns the operation's result iff some attempt succeeds.
AsyncRetrySucceeds(att) == \E k \in 1..Retries : att[k]

\* What a store call made through _async_retry can come to: applied or not.
RetryResults == {AsyncRetrySucceeds(att) : att \in Attempts}

\* ------------------------------------------- retry helper, step by step
\* What the fallback argument of a call can be: absent, a function that
\* returns a value, a function that raises.
Fallbacks == {"none", "value", "raises"}

\* The values random.uniform(0, 0.3) is followed with, in milliseconds.
Jitters == {0, JitterMaxMs \div 2, JitterMaxMs - 1}

\* The calls of _async_retry: retries, the outcome of the operation at each
\* attempt (TRUE: it returns), and the fallback.  range(1, retries + 1) is
\* empty for retries = 0.
RetryCalls ==
    {[pc |-> IF n >= 1 THEN "attempt" ELSE "final",
      retries |-> n, outcome |-> att, fallback |-> fb,
      attempt |-> 1, calls |-> 0, slept |-> <<>>, fbCalls |-> 0,
      result |-> "pending", propagated |-> FALSE] :
        n \in 0..Retries, att \in Attempts, fb \in Fallbacks}

\* A delay that grows by base_delay per attempt.
LinearBackoff(k, jitter) == BaseDelayMs * k + jitter

\* delay = base_delay * (2 ** (attempt - 1)) + jitter
Backoff(k, jitter) == BaseDelayMs * 2^(k - 1) + jitter

\* A fallback called outside a try block.
FallbackUnguarded(fb) ==
    CASE fb = "none" -> [result |-> "None", fbCalls |-> 0, propagated |-> FALSE]
      [] fb = "value" ->
            [result |-> "fallback_value", fbCalls |-> 1, propagated |-> FALSE]
      [] fb = "raises" ->
            [result |-> "pending", fbCalls |-> 1, propagated |-> TRUE]

\* After the loop: the fallback, if there is one, is called in a try block;
\* its value is returned, and None when there is none or it raises.
FallbackOutcome(fb) ==
    CASE fb = "none" -> [result |-> "None", fbCalls |-> 0, propagated |-> FALSE]
      [] fb = "value" ->
            [result |-> "fallback_value", fbCalls |-> 1, propagated |-> FALSE]
      [] fb = "raises" ->
            [result |-> "None", fbCalls |-> 1, propagated |-> FALSE]

\* A loop body that does not sleep after the failure of the last attempt.
R_AttemptSkipsLastSleep ==
    /\ retry.pc = "attempt"
    /\ IF retry.outcome[retry.attempt]
       THEN retry' = [retry EXCEPT !.calls = @ + 1, !.result = "op_result",
                                   !.pc = "returned"]
       ELSE IF retry.attempt = retry.retries
       THEN retry' = [retry EXCEPT !.calls = @ + 1, !.attempt = @ + 1,
                                   !.pc = "final"]
       ELSE \E j \in Jitters :
              retry' = [retry EXCEPT
                          !.calls = @ + 1,
                          !.slept = Append(@, Backoff(retry.attempt, j)),
                          !.pc = "sleeping"]
    /\ UNCHANGED <<wvars, enq, prep, fleet, art, watch, handler>>

\* One pass of the loop body: await asyncio.to_thread(fn) returns and its
\* value is returned, or it raises, the exception is caught, the delay is
\* computed and asyncio.sleep(delay) is awaited.
R_Attempt ==
    /\ retry.pc = "attempt"
    /\ IF retry.outcome[retry.attempt]
       THEN retry' = [retry EXCEPT !.calls = @ + 1, !.result = "op_result",
                                   !.pc = "returned"]
       ELSE \E j \in Jitters :
              retry' = [retry EXCEPT
                          !.calls = @ + 1,
                          !.slept = Append(@, Backoff(retry.attempt, j)),
                          !.pc = "sleeping"]
    /\ UNCHANGED <<wvars, enq, prep, fleet, art, watch, handler>>

\* asyncio.sleep(delay) ends: the next attempt, or the end of the loop.
R_SleepDone ==
    /\ retry.pc = "sleeping"
    /\ retry' = [retry EXCEPT
                   !.attempt = @ + 1,
                   !.pc = IF retry.attempt + 1 <= retry.retries
                          THEN "attempt" ELSE "final"]
    /\ UNCHANGED <<wvars, enq, prep, fleet, art, watch, handler>>

\* The code after the loop: log, fallback, return.
R_Final ==
    /\ retry.pc = "final"
    /\ LET o == FallbackOutcome(retry.fallback) IN
        retry' = [retry EXCEPT !.result = o.result,
                               !.fbCalls = @ + o.fbCalls,
                               !.propagated = o.propagated,
                               !.pc = "returned"]
    /\ UNCHANGED <<wvars, enq, prep, fleet, art, watch, handler>>

\* ------------------------------------------- enqueue_event, step by step
\* Python's None.
PyNone == [type |-> "None"]

\* Strings, by what strip() and json.loads() make of them: pad says that
\* white space surrounds the body, and the body is empty, a JSON document
\* ("json") or other text ("text").
Strings == [type : {"str"}, pad : BOOLEAN, body : {"", "json", "text"}]

\* What dict.get finds under "text" (or "content", or "data").
TextFields == {PyNone} \cup Strings

\* The value under "parts": no such key, or a list that is empty or begins
\* with a dict or with something else.
PartsFields ==
    {[type |-> "absent"], [type |-> "list", items |-> <<>>],
     [type |-> "list", items |-> <<[type |-> "other"]>>]}
        \cup {[type |-> "list", items |-> <<[type |-> "dict", text |-> x]>>] :
                x \in TextFields}

Dicts == [type : {"dict"}, parts : PartsFields, text : TextFields]

\* Objects with a model_dump method (a Message, an Artifact).
Models == [type : {"model"}, dump : Dicts]

\* What _extract_payload can find in event.artifact or event.status.message.
Sources == {PyNone} \cup Strings \cup Dicts \cup Models

\* status.state of a status event.
TaskStates == {"working", "input-required", "completed"}

\* metadata.get("event_type"): None when the key is absent.
MetaEventTypes ==
    {PyNone, [type |-> "str", s |-> ""], [type |-> "str", s |-> "task_started"],
     [type |-> "str", s |-> "human_asked"]}

\* Truth value of a Python value.
Truthy(v) ==
    CASE v.type = "None" -> FALSE
      [] v.type = "str" /\ "s" \in DOMAIN v -> v.s # ""
      [] v.type = "str" /\ "body" \in DOMAIN v -> v.pad \/ v.body # ""
      [] OTHER -> TRUE

\* x or y
PyOr(x, y) == IF Truthy(x) THEN x ELSE y

\* str.strip()
Strip(str) == [str EXCEPT !.pad = FALSE]

Returned(v) == [raised |-> FALSE, value |-> v]

Raised(cls) == [raised |-> TRUE, value |-> [type |-> cls]]

\* json.loads(str): the value of the document, or JSONDecodeError.
JsonLoads(str) ==
    IF str.body = "json" THEN Returned([type |-> "parsed"])
    ELSE Raised("JSONDecodeError")

\* The part of _parse_json_or_text that handles a dict.
ParseDict(d) ==
    LET first == IF d.parts.type = "list" /\ d.parts.items # <<>>
                    /\ d.parts.items[1].type = "dict"
                 THEN d.parts.items[1] ELSE PyNone
        txt == IF first.type = "dict" THEN first.text ELSE PyNone IN
    IF txt.type = "str" THEN JsonLoads(txt)
    ELSE IF d.text.type = "str" THEN JsonLoads(d.text)
    ELSE Returned(d)

\* _parse_json_or_text(value)
ParseJsonOrText(value) ==
    CASE value.type = "None" ->
            Returned([type |-> "dict", parts |-> [type |-> "absent"],
                      text |-> PyNone])
      [] value.type = "str" ->
            IF Strip(value).body = ""
            THEN Returned([type |-> "str", pad |-> FALSE, body |-> ""])
            ELSE JsonLoads(Strip(value))
      [] value.type = "model" -> ParseDict(value.dump)
      [] value.type = "dict" -> ParseDict(value)

\* An event type taken from the metadata first.
EventTypeFromMetadataFirst(state, metaType) ==
    PyOr(metaType,
         IF state = "input-required" THEN [type |-> "str", s |-> "human_asked"]
         ELSE PyNone)

\* {TaskState.input_required: "human_asked"}.get(state_val)
\*     or metadata.get("event_type")
EventTypeOf(state, metaType) ==
    PyOr(IF state = "input-required" THEN [type |-> "str", s |-> "human_asked"]
         ELSE PyNone,
         metaType)

\* The calls of enqueue_event: an artifact event or a status event, its
\* state, its metadata.event_type and the artifact or the status message.
\* The rows a task can be: proc_inst_id is the task's own process instance,
\* root_proc_inst_id is absent or names the root instance.
Rows ==
    {[proc_inst_id |-> [type |-> "str", s |-> "own"], root_proc_inst_id |-> root] :
        root \in {PyNone, [type |-> "str", s |-> "root"]}}

\* The id the lookups of prepare_context are made with, which is also the
\* "proc_inst_id" the executor finds in the extras of its context.
EffectiveProcInstId(row) == PyOr(row.root_proc_inst_id, row.proc_inst_id)

\* What an executor can put in the contextId of an event: nothing, the
\* proc_inst_id of the row, or the effective id (as the sample executor does).
ContextIds(row) == {PyNone, row.proc_inst_id, EffectiveProcInstId(row)}

\* proc_inst_id_val of enqueue_event, in a queue made with proc_inst_id.
ProcInstIdVal(contextId, proc_inst_id) == PyOr(contextId, proc_inst_id)

EnqueueCalls ==
    UNION {{[pc |-> "called", event |-> ev, state |-> st, metaType |-> mt,
             source |-> src, event_type |-> PyNone, data |-> PyNone,
             row |-> row, contextId |-> c, proc_inst_id |-> PyNone] :
                ev \in {"artifact", "status"}, st \in TaskStates,
                mt \in MetaEventTypes, src \in Sources, c \in ContextIds(row)} :
           row \in Rows}

\* The TaskArtifactUpdateEvent branch: the payload is extracted and a
\* save_task_result task is made, or the exception of the extraction is
\* logged and raised again.
E_Artifact ==
    /\ enq.pc = "called" /\ enq.event = "artifact"
    /\ LET r == ParseJsonOrText(enq.source) IN
        enq' = IF r.raised
               THEN [enq EXCEPT !.pc = "raised", !.data = r.value]
               ELSE [enq EXCEPT !.pc = "saved", !.data = r.value]
    /\ UNCHANGED <<wvars, retry, prep, fleet, art, watch, handler>>

\* The TaskStatusUpdateEvent branch up to event_type_val.
E_StatusEventType ==
    /\ enq.pc = "called" /\ enq.event = "status"
    /\ enq' = [enq EXCEPT !.pc = "typed",
                          !.event_type = EventTypeOf(enq.state, enq.metaType)]
    /\ UNCHANGED <<wvars, retry, prep, fleet, art, watch, handler>>

\* The rest of the branch: the payload dict is built, with "data" extracted
\* from the status message, and the enqueue_ui_event_coalesced task is made;
\* or the exception of the extraction is logged and raised again.
E_StatusPayload ==
    /\ enq.pc = "typed"
    /\ LET r == ParseJsonOrText(enq.source) IN
        enq' = IF r.raised
               THEN [enq EXCEPT !.pc = "raised", !.data = r.value]
               ELSE [enq EXCEPT !.pc = "queued", !.data = r.value,
                                !.proc_inst_id =
                                    ProcInstIdVal(enq.contextId, enq.row.proc_inst_id)]
    /\ UNCHANGED <<wvars, retry, prep, fleet, art, watch, handler>>

\* A wrapper that drops the exception it wraps.
WrapperWithoutCause(original) ==
    [cls |-> "ContextPreparationError", original |-> "none"]

\* ContextPreparationError(e): the wrapper keeps the original exception.
ContextPreparationError(original) ==
    [cls |-> "ContextPreparationError", original |-> original]

\* The raw_error field of the error event: the class of the original error.
RawError(e) == IF e.cls = "ContextPreparationError" THEN e.original ELSE e.cls

\* A task made with create_task, with the payload it carries.
BgTask(kind, t, n, event_type) ==
    [kind |-> kind, todo |-> t, n |-> n, event_type |-> event_type]

\* enqueue_event on a TaskStatusUpdateEvent: the n-th status record, of task t.
StatusRecord(t, n) == BgTask("enq", t, n, "status")

\* task_done: the crew_completed record of task t.
CrewCompleted(t) == BgTask("enq", t, 0, "crew_completed")

\* The error event of the failure path (job_id TASK_ERROR, event_type error).
ErrorEvent(t) == BgTask("record_event", t, 0, "error")

\* The update_task_error call of the failure path of task t.
UpdateTaskError(t) == BgTask("update_task_error", t, 0, "none")

FlushTask == BgTask("flush", NoTask, 0, "none")

\* ------------------------------------- context preparation, step by step
\* A form lookup that raises when every attempt has failed.
FetchFormWithoutFallback(att) ==
    IF AsyncRetrySucceeds(att) THEN Returned([type |-> "form_def"])
    ELSE Raised("APIError")

\* fetch_form_types: _async_retry with a fallback that returns the default
\* form, inside try/except, and "resp if resp else default".
FetchFormTypes(att) ==
    LET resp == IF AsyncRetrySucceeds(att) THEN "op_result"
                ELSE FallbackOutcome("value").result IN
    Returned([type |-> IF resp = "op_result" THEN "form_def" ELSE "default_form"])

\* agents[0].get("model") of a row: no agent or no model, or a model name.
RowModels == {"none", "m1", "m2"}

\* The module-level state of utils.py as an earlier task can have left it:
\* _global_agent_model and the model _client was created for.
LeftByEarlierTask ==
    {[agent_model |-> "none", client |-> "none"],
     [agent_model |-> "m1", client |-> "none"],
     [agent_model |-> "m1", client |-> "m1"],
     [agent_model |-> "none", client |-> "gpt-4.1-mini"]}

\* set_agent_model(agent): _global_agent_model is replaced.
SetAgentModel(g, model) == [g EXCEPT !.agent_model = model]

\* A get_client that makes a client for the model in force at each call.
GetClientOfCurrentModel(g) ==
    [g EXCEPT !.client = IF g.agent_model # "none" THEN g.agent_model
                         ELSE "gpt-4.1-mini"]

\* get_client(): the client is created on the first call, for the global
\* agent model or for the default model, and returned as it is afterwards.
GetClient(g) ==
    IF g.client # "none" THEN g
    ELSE [g EXCEPT !.client = IF g.agent_model # "none" THEN g.agent_model
                              ELSE "gpt-4.1-mini"]

\* The rows process_todolist_item can be given: the outcome of each attempt of
\* the form lookup, whether another part of the gather raises, whether the
\* row has feedback and whether summarize_feedback raises, the model of the
\* row's first agent; and the module-level state it starts from.
\* The text of "friendly" when the summarizer gave none.
FallbackText == [type |-> "str", s |-> "fallback"]

\* What summarize_error_to_user comes to: a text, an empty text, an exception.
ErrorSummaries ==
    {Returned([type |-> "str", s |-> "summary"]), Returned([type |-> "str", s |-> ""]),
     Raised("SummarizerError")}

\* A payload whose "friendly" is the summarizer's text as it is.
FriendlyWithoutFallback(friendly_text) == friendly_text

\* "friendly": friendly_text or the fixed text
FriendlyOf(friendly_text) == PyOr(friendly_text, FallbackText)

PrepareCalls ==
    {[pc |-> "gather", form_attempts |-> att, others_raise |-> o,
      feedback |-> f, summary_raises |-> sr, form |-> PyNone, exc |-> NoExc,
      raw_error |-> "none", row_model |-> rm, utils |-> g,
      friendly_text |-> PyNone, error_event |-> PyNone, recorded |-> "none",
      marked |-> "none"] :
        att \in Attempts, o \in BOOLEAN, f \in BOOLEAN, sr \in BOOLEAN,
        rm \in RowModels, g \in LeftByEarlierTask}

\* prepare_context up to the end of asyncio.gather and the unpacking: an
\* exception is wrapped in ContextPreparationError.
P_Gather ==
    /\ prep.pc = "gather"
    /\ LET r == FetchFormTypes(prep.form_attempts) IN
        prep' = IF r.raised
                THEN [prep EXCEPT !.pc = "failed",
                                  !.exc = ContextPreparationError(r.value.type)]
                ELSE IF prep.others_raise
                THEN [prep EXCEPT !.pc = "failed",
                                  !.exc = ContextPreparationError("LookupError")]
                ELSE [prep EXCEPT !.form = r.value,
                                  !.utils = SetAgentModel(@, prep.row_model),
                                  !.pc = IF prep.feedback THEN "summarizing"
                                         ELSE "prepared"]
    /\ UNCHANGED <<wvars, retry, enq, fleet, art, watch, handler>>

\* summarize_feedback, awaited when the row has feedback: _llm_request takes
\* the client from get_client().
P_Summary ==
    /\ prep.pc = "summarizing"
    /\ prep' = IF prep.summary_raises
               THEN [prep EXCEPT !.pc = "failed", !.utils = GetClient(@),
                                 !.exc = ContextPreparationError("SummarizerError")]
               ELSE [prep EXCEPT !.pc = "prepared", !.utils = GetClient(@)]
    /\ UNCHANGED <<wvars, retry, enq, fleet, art, watch, handler>>

\* prepare_context returned: the event queue is made and execute is awaited.
P_Execute ==
    /\ prep.pc = "prepared"
    /\ prep' = [prep EXCEPT !.pc = "executing"]
    /\ UNCHANGED <<wvars, retry, enq, fleet, art, watch, handler>>

\* execute ends: it returned (task_done is called), or it raised.
P_ExecuteDone ==
    /\ prep.pc = "executing"
    /\ \E raises \in BOOLEAN :
        prep' = IF raises
                THEN [prep EXCEPT !.pc = "failed",
                                  !.exc = [cls |-> "ExecuteError", original |-> "none"]]
                ELSE [prep EXCEPT !.pc = "done"]
    /\ UNCHANGED <<wvars, retry, enq, fleet, art, watch, handler>>

\* prepare_context or execute raised: the except block of
\* process_todolist_item asks summarize_error_to_user for the friendly text
\* (get_client(); friendly_text is None when it raises), builds the payload of
\* the error event, makes the record_event task and awaits update_task_error.
P_FailurePath ==
    /\ prep.pc = "failed"
    /\ \E r \in ErrorSummaries :
        LET friendly_text == IF r.raised THEN PyNone ELSE r.value IN
        prep' = [prep EXCEPT !.pc = "failure_path", !.utils = GetClient(@),
                             !.raw_error = RawError(prep.exc),
                             !.friendly_text = friendly_text,
                             !.error_event = [friendly |-> FriendlyOf(friendly_text),
                                              raw_error |-> RawError(prep.exc)],
                             !.recorded = "pending"]
    /\ UNCHANGED <<wvars, retry, enq, fleet, art, watch, handler>>

\* The record_event task of the error event ends: the row was inserted by one
\* attempt, or every attempt failed (record_event logs it and returns).
P_RecordEventDone ==
    /\ prep.recorded = "pending"
    /\ \E applied \in RetryResults :
        prep' = [prep EXCEPT !.recorded = IF applied THEN "applied" ELSE "exhausted"]
    /\ UNCHANGED <<wvars, retry, enq, fleet, art, watch, handler>>

\* update_task_error ends: the update to FAILED was applied by one attempt, or
\* every attempt failed (update_task_error logs it and returns).
P_MarkDone ==
    /\ prep.pc = "failure_path"
    /\ \E applied \in RetryResults :
        prep' = [prep EXCEPT !.pc = "done",
                             !.marked = IF applied THEN "applied" ELSE "exhausted"]
    /\ UNCHANGED <<wvars, retry, enq, fleet, art, watch, handler>>

\* ------------------------------------- artifact saves of one task (F)
\* A task that execute has just been called on: nothing emitted, the row
\* in_progress.  log is the history of the writes the store applied to the row.
ArtifactStart ==
    [pc |-> "executing", emitted |-> 0, ready |-> <<>>, inflight |-> {},
     draft_status |-> "in_progress", log |-> <<>>]

\* The save_task_result call of the n-th artifact event.
SaveCall(n, is_final) == [n |-> n, final |-> is_final]

\* execute calls enqueue_event with a TaskArtifactUpdateEvent:
\* create_task(save_task_result(todolist_id, artifact_content, is_final)).
A_EmitArtifact ==
    /\ art.pc = "executing" /\ art.emitted < MaxEvents
    /\ \E is_final \in BOOLEAN :
        art' = [art EXCEPT !.emitted = @ + 1,
                           !.ready = Append(@, SaveCall(art.emitted + 1, is_final))]
    /\ UNCHANGED <<wvars, retry, enq, prep, fleet, watch, handler>>

\* The oldest save_task_result task starts: its RPC goes to the store.
A_RunSaveTask ==
    /\ art.ready # <<>>
    /\ art' = [art EXCEPT !.ready = Tail(@), !.inflight = @ \cup {Head(art.ready)}]
    /\ UNCHANGED <<wvars, retry, enq, prep, fleet, watch, handler>>

\* A save_task_result call ends: the RPC was applied by one attempt (with
\* p_final it makes the row completed), or every attempt failed.
A_SaveDone ==
    /\ \E c \in art.inflight : \E applied \in RetryResults :
        art' = IF applied
               THEN [art EXCEPT !.inflight = @ \ {c},
                                !.log = Append(@, IF c.final THEN "final" ELSE "save"),
                                !.draft_status = IF c.final THEN "completed" ELSE @]
               ELSE [art EXCEPT !.inflight = @ \ {c}]
    /\ UNCHANGED <<wvars, retry, enq, prep, fleet, watch, handler>>

\* execute ends: it returned (task_done, process_todolist_item returns), or
\* it raised and the except block goes on to update_task_error.
A_ExecuteEnd ==
    /\ art.pc = "executing"
    /\ \E raises \in BOOLEAN :
        art' = [art EXCEPT !.pc = IF raises THEN "marking" ELSE "done"]
    /\ UNCHANGED <<wvars, retry, enq, prep, fleet, watch, handler>>

\* update_task_error ends: the row was updated to FAILED by one attempt
\* (whatever its status was), or every attempt failed.
A_MarkDone ==
    /\ art.pc = "marking" /\ art.ready = <<>>
    /\ \E applied \in RetryResults :
        art' = IF applied
               THEN [art EXCEPT !.pc = "done", !.draft_status = "FAILED",
                                !.log = Append(@, "FAILED")]
               ELSE [art EXCEPT !.pc = "done"]
    /\ UNCHANGED <<wvars, retry, enq, prep, fleet, watch, handler>>

\* ------------------------------------------ several workers on one store
Workers == 1..NumWorkers

\* The pending rows of the todolist in the order the select returns them.
PendingTodos(status_of) ==
    SelectSeq([t \in 1..NumTasks |-> t], LAMBDA t : status_of[t] = "pending")

\* A fleet at its start: every task pending, every worker about to poll.
\* claim = "rpc": the workers claim through the fetch_pending_task RPC;
\* claim = "select": they select the pending rows and mark each themselves.
\* failed_marks counts, per task, the mark_task_failed calls that were applied
\* (the update to failed and the task_failed event).
FleetStarts ==
    {[claim |-> c, status |-> [t \in Tasks |-> "pending"],
      failed_marks |-> [t \in Tasks |-> 0],
      w |-> [i \in Workers |-> [pc |-> "polling", pending_todos |-> <<>>,
                                todo |-> NoTask]]] : c \in {"rpc", "select"}}

\* Worker i goes on with the rows it has left: the next row is marked, or the
\* list is done and the polling interval is slept.
FleetNextTodo(wi, rows) ==
    IF rows = <<>>
    THEN [wi EXCEPT !.pc = "sleeping", !.pending_todos = <<>>, !.todo = NoTask]
    ELSE [wi EXCEPT !.pc = "marking", !.pending_todos = rows, !.todo = Head(rows)]

\* polling_pending_todos of worker i returns.  The RPC takes the oldest
\* pending row and makes it in_progress in one transaction of the store, or
\* finds none (or fails at every attempt): the worker sleeps.
Fleet_Claim ==
    \E i \in Workers :
        /\ fleet.claim = "rpc" /\ fleet.w[i].pc = "polling"
        /\ \/ fleet' = [fleet EXCEPT !.w[i].pc = "sleeping"]
           \/ /\ PendingTodos(fleet.status) # <<>>
              /\ LET t == Head(PendingTodos(fleet.status)) IN
                 fleet' = [fleet EXCEPT !.status[t] = "in_progress",
                                        !.w[i].pc = "executing", !.w[i].todo = t]
        /\ UNCHANGED <<wvars, retry, enq, prep, art, watch, handler>>

\* The processing of the claimed row ends in worker i: the task is done or
\* marked FAILED, and the next claim is issued.
Fleet_ClaimedDone ==
    \E i \in Workers : \E st \in {"completed", "failed"} :
        /\ fleet.claim = "rpc" /\ fleet.w[i].pc = "executing"
        /\ fleet' = [fleet EXCEPT !.status[fleet.w[i].todo] = st,
                                  !.w[i].pc = "polling", !.w[i].todo = NoTask]
        /\ UNCHANGED <<wvars, retry, enq, prep, art, watch, handler>>

\* fetch_pending_todolist of worker i returns the rows that are pending now
\* (none when the select fails); run() starts on the first of them.
Fleet_FetchPending ==
    \E i \in Workers :
        /\ fleet.claim = "select" /\ fleet.w[i].pc = "polling"
        /\ \E rows \in {<<>>, PendingTodos(fleet.status)} :
            fleet' = [fleet EXCEPT !.w[i] = FleetNextTodo(@, rows)]
        /\ UNCHANGED <<wvars, retry, enq, prep, art, watch, handler>>

\* mark_task_failed on task t: the row is updated to failed and a task_failed
\* event is inserted, or the store call raises and the exception is logged.
MarkTaskFailed(f, t, applied) ==
    IF applied
    THEN [f EXCEPT !.status[t] = "failed", !.failed_marks[t] = @ + 1]
    ELSE f

\* mark_task_in_progress: the row with this id is updated, whatever its status.
MarkTaskInProgress(status_of, t) == [status_of EXCEPT ![t] = "in_progress"]

\* process_todolist_item of worker i marks its row in_progress and awaits
\* execute; or the update raises: the except block of process_todolist_item
\* calls mark_task_failed and raises the exception again.
Fleet_MarkInProgress ==
    \E i \in Workers :
        /\ fleet.claim = "select" /\ fleet.w[i].pc = "marking"
        /\ \/ fleet' = [fleet EXCEPT
                            !.status = MarkTaskInProgress(@, fleet.w[i].todo),
                            !.w[i].pc = "executing"]
           \/ \E applied \in BOOLEAN :
                fleet' = [MarkTaskFailed(fleet, fleet.w[i].todo, applied)
                            EXCEPT !.w[i].pc = "raised"]
        /\ UNCHANGED <<wvars, retry, enq, prep, art, watch, handler>>

\* execute ends in worker i.  It returned: task_done marks the row completed
\* and run() goes on with its next row.  It raised: the except block of
\* process_todolist_item calls mark_task_failed and raises the exception again.
Fleet_ExecuteDone ==
    \E i \in Workers :
        /\ fleet.claim = "select" /\ fleet.w[i].pc = "executing"
        /\ \/ fleet' = [fleet EXCEPT !.status[fleet.w[i].todo] = "completed",
                                     !.w[i] = FleetNextTodo(@, Tail(@.pending_todos))]
           \/ \E applied \in BOOLEAN :
                fleet' = [MarkTaskFailed(fleet, fleet.w[i].todo, applied)
                            EXCEPT !.w[i].pc = "raised"]
        /\ UNCHANGED <<wvars, retry, enq, prep, art, watch, handler>>

\* run() of worker i catches the exception process_todolist_item raised
\* again: it calls mark_task_failed itself and goes on with its next row.
Fleet_RunCatches ==
    \E i \in Workers : \E applied \in BOOLEAN :
        /\ fleet.claim = "select" /\ fleet.w[i].pc = "raised"
        /\ fleet' = [MarkTaskFailed(fleet, fleet.w[i].todo, applied)
                        EXCEPT !.w[i] = FleetNextTodo(@, Tail(@.pending_todos))]
        /\ UNCHANGED <<wvars, retry, enq, prep, art, watch, handler>>

\* The sleep of worker i ends: the next poll.
Fleet_SleepDone ==
    \E i \in Workers :
        /\ fleet.w[i].pc = "sleeping"
        /\ fleet' = [fleet EXCEPT !.w[i].pc = "polling"]
        /\ UNCHANGED <<wvars, retry, enq, prep, art, watch, handler>>

\* ------------------------------------------------------------ coalescer
\* A flush that takes the snapshot and leaves the buffer as it was.
FlushWithoutClear(b, by) ==
    /\ buf' = b
    /\ timer' = "none"
    /\ liveTimers' = IF timer = "armed" THEN liveTimers - 1 ELSE liveTimers
    /\ issued' = issued \o b
    /\ lastBulk' = IF b = <<>> THEN lastBulk ELSE Len(b)
    /\ bulkInFlight' = IF b = <<>> \/ by = "shutdown" THEN bulkInFlight
                       ELSE bulkInFlight + 1

\* A flush that calls record_events_bulk with an empty snapshot too.
FlushWithoutEmptyTest(b, by) ==
    /\ buf' = <<>>
    /\ timer' = "none"
    /\ liveTimers' = IF timer = "armed" THEN liveTimers - 1 ELSE liveTimers
    /\ issued' = issued \o b
    /\ lastBulk' = IF b = <<>> THEN lastBulk ELSE Len(b)
    /\ bulkInFlight' = IF by = "shutdown" THEN bulkInFlight ELSE bulkInFlight + 1

\* _flush_events_now on buffer b: snapshot, clear, cancel the timer, and one
\* record_events_bulk call when the snapshot is not empty.
FlushEventsNow(b, by) ==
    /\ buf' = <<>>
    /\ timer' = "none"
    /\ liveTimers' = IF timer = "armed" THEN liveTimers - 1 ELSE liveTimers
    /\ issued' = issued \o b
    /\ lastBulk' = IF b = <<>> THEN lastBulk ELSE Len(b)
    /\ bulkInFlight' = IF b = <<>> \/ by = "shutdown" THEN bulkInFlight
                       ELSE bulkInFlight + 1

\* A scheduler that never arms the timer.
ScheduleWithoutTimer == timer' = timer /\ liveTimers' = liveTimers

\* A scheduler that arms a timer at every call.
ScheduleAlways == timer' = "armed" /\ liveTimers' = liveTimers + 1

\* _schedule_delayed_flush: arm the timer only when none is set.
ScheduleDelayedFlush ==
    IF timer = "none"
    THEN timer' = "armed" /\ liveTimers' = liveTimers + 1
    ELSE timer' = timer /\ liveTimers' = liveTimers

\* An enqueue that flushes once the buffer is longer than the threshold.
RunEnqueueTaskAboveThreshold ==
    /\ ready # <<>> /\ Head(ready).kind = "enq"
    /\ ready' = Tail(ready)
    /\ LET b == Append(buf, Head(ready)) IN
        IF Len(b) > COALESCE_BATCH
        THEN FlushEventsNow(b, "threshold")
        ELSE buf' = b /\ ScheduleDelayedFlush /\ UNCHANGED <<issued, bulkInFlight, lastBulk>>
    /\ UNCHANGED <<hvars, variant, exhausted, pc, cur, is_running, shutdown_event, stopCalled, status,
                   exec, emitted, emittedSeq, inflight, errEvents, failedUpdates,
                   exc, shutdownFlushes, svars>>

\* enqueue_ui_event_coalesced, run by the task at the head of ready: append
\* under the lock, then the threshold flush or the timer.  The lock is only
\* held between two suspension points, so it is never contended and the
\* append, the test and the snapshot of the flush are one step.
RunEnqueueTask ==
    /\ ready # <<>> /\ Head(ready).kind = "enq"
    /\ ready' = Tail(ready)
    /\ LET b == Append(buf, Head(ready)) IN
        IF Len(b) >= COALESCE_BATCH
        THEN FlushEventsNow(b, "threshold")
        ELSE buf' = b /\ ScheduleDelayedFlush /\ UNCHANGED <<issued, bulkInFlight, lastBulk>>
    /\ UNCHANGED <<hvars, variant, exhausted, pc, cur, is_running, shutdown_event, stopCalled, status,
                   exec, emitted, emittedSeq, inflight, errEvents, failedUpdates,
                   exc, shutdownFlushes, svars>>

\* The call_later callback: create_task(_flush_events_now()).  The timer can
\* expire while tasks are waiting to start; the flush task starts after them.
TimerFire ==
    /\ timer = "armed"
    /\ timer' = "fired"
    /\ liveTimers' = liveTimers - 1
    /\ ready' = Append(ready, FlushTask)
    /\ UNCHANGED <<hvars, lastBulk, variant, exhausted, pc, cur, is_running, shutdown_event, stopCalled, status,
                   exec, emitted, emittedSeq, inflight, buf, issued, bulkInFlight, errEvents,
                   failedUpdates, exc, shutdownFlushes, svars>>

\* The flush task the timer created.
RunFlushTask ==
    /\ ready # <<>> /\ Head(ready).kind = "flush"
    /\ ready' = Tail(ready)
    /\ FlushEventsNow(buf, "timer")
    /\ UNCHANGED <<hvars, variant, exhausted, pc, cur, is_running, shutdown_event, stopCalled, status,
                   exec, emitted, emittedSeq, inflight, errEvents, failedUpdates,
                   exc, shutdownFlushes, svars>>

\* record_events_bulk of a threshold or timer flush ends; the flush does not
\* consult the outcome.
BulkDone ==
    /\ bulkInFlight > 0 /\ ready = <<>>
    /\ bulkInFlight' = bulkInFlight - 1
    /\ UNCHANGED <<hvars, lastBulk, variant, exhausted, pc, cur, is_running, shutdown_event, stopCalled,
                   status, exec, emitted, emittedSeq, ready, inflight, buf,
                   timer, liveTimers, issued, errEvents, failedUpdates, exc,
                   shutdownFlushes, svars>>

\* The k-th record handed to the coalescer when it is followed alone.
NthRecord(k) == StatusRecord(((k - 1) \div MaxEvents) + 1, ((k - 1) % MaxEvents) + 1)

\* The coalescer alone: some executor's enqueue_event makes the next
\* enqueue_ui_event_coalesced task, at any moment.
C_Enqueue ==
    /\ variant = "C" /\ emitted < NumTasks * MaxEvents
    /\ emitted' = emitted + 1
    /\ ready' = Append(ready, NthRecord(emitted + 1))
    /\ emittedSeq' = Append(emittedSeq, NthRecord(emitted + 1))
    /\ UNCHANGED <<hvars, lastBulk, variant, exhausted, pc, cur, is_running, shutdown_event, stopCalled, status,
                   exec, inflight, buf, timer, liveTimers, issued, bulkInFlight, errEvents, failedUpdates,
                   exc, shutdownFlushes, svars>>

\* ------------------------------------------------- F: the polling loop
\* A loop whose every turn begins with the idle sleep.
F_LoopHeadSleeping(r) ==
    IF r /\ ~shutdown_event
    THEN /\ pc' = IF pc = "sleeping" THEN "polling" ELSE "sleeping"
         /\ UNCHANGED <<buf, timer, liveTimers, issued, bulkInFlight, lastBulk, shutdownFlushes>>
    ELSE /\ shutdownFlushes' = shutdownFlushes + 1
         /\ FlushEventsNow(buf, "shutdown")
         /\ pc' = IF buf = <<>> THEN "returned" ELSE "flushing"

\* A loop head that tests is_running alone.
F_LoopHeadWithoutEvent(r) ==
    IF r
    THEN /\ pc' = "polling"
         /\ UNCHANGED <<buf, timer, liveTimers, issued, bulkInFlight, lastBulk, shutdownFlushes>>
    ELSE /\ shutdownFlushes' = shutdownFlushes + 1
         /\ FlushEventsNow(buf, "shutdown")
         /\ pc' = IF buf = <<>> THEN "returned" ELSE "flushing"

\* The head of run()'s while loop in the F server, reached with is_running = r:
\* either the next claim is issued, or the loop is left and run() flushes the
\* coalescer once and returns.
F_LoopHead(r) ==
    IF r /\ ~shutdown_event
    THEN /\ pc' = "polling"
         /\ UNCHANGED <<buf, timer, liveTimers, issued, bulkInFlight, lastBulk, shutdownFlushes>>
    ELSE /\ shutdownFlushes' = shutdownFlushes + 1
         /\ FlushEventsNow(buf, "shutdown")
         /\ pc' = IF buf = <<>> THEN "returned" ELSE "flushing"

\* run(): is_running = True, initialize_db, signal handlers, first loop test.
F_RunStart ==
    /\ variant = "F" /\ pc = "init"
    /\ is_running' = TRUE
    /\ F_LoopHead(TRUE)
    /\ UNCHANGED <<hvars, variant, exhausted, cur, shutdown_event, stopCalled, status, exec, emitted,
                   emittedSeq, ready, inflight, errEvents, failedUpdates, exc, svars>>

\* polling_pending_todos returns: no row (nothing pending, or every attempt of
\* the RPC failed and the fallback gave None; an exception of the poll step is
\* caught by run() and followed by the same sleep), or one claimed row, for which
\* process_todolist_item starts prepare_context.  The pending rows are
\* interchangeable; the store hands out the oldest.
F_PollReturn ==
    /\ variant = "F" /\ pc = "polling" /\ ready = <<>>
    /\ \/ /\ pc' = "sleeping"
          /\ UNCHANGED <<cur, status>>
       \/ \E t \in Tasks :
            /\ status[t] = "pending"
            /\ \A u \in Tasks : status[u] = "pending" => t <= u
            /\ status' = [status EXCEPT ![t] = "in_progress"]
            /\ cur' = t
            /\ pc' = "preparing"
    /\ UNCHANGED <<hvars, lastBulk, variant, exhausted, is_running, shutdown_event, stopCalled, exec, emitted,
                   emittedSeq, ready, inflight, buf, timer, liveTimers, issued, bulkInFlight, errEvents,
                   failedUpdates, exc, shutdownFlushes, svars>>

\* asyncio.sleep(10) ends.
F_SleepDone ==
    /\ variant = "F" /\ pc = "sleeping" /\ ready = <<>>
    /\ F_LoopHead(is_running)
    /\ UNCHANGED <<hvars, variant, exhausted, cur, is_running, shutdown_event, stopCalled, status, exec,
                   emitted, emittedSeq, ready, inflight, errEvents, failedUpdates, exc, svars>>

\* A failure path that goes to the FAILED marking without the error event.
F_FailurePathWithoutEvent(e) ==
    /\ exc' = e
    /\ pc' = "marking"

\* The except branch of process_todolist_item begins: summarize_error_to_user
\* is awaited (a ContextPreparationError made by prepare_context has no friendly text).
F_EnterFailurePath(e) ==
    /\ exc' = e
    /\ pc' = "err_summary"

\* A worker that lets go of the prepared task and polls again.
F_DropPreparedTask ==
    /\ exec' = exec
    /\ pc' = "polling"
    /\ exc' = exc

\* prepare_context succeeded: the event queue is made and execute is awaited.
F_StartExecute ==
    /\ exec' = [exec EXCEPT ![cur] = "running"]
    /\ pc' = "executing"
    /\ exc' = exc

\* The gather of the four lookups ends: one of them raised, or all returned and
\* the row has feedback (summarize_feedback is awaited) or has none.
F_PrepareLookups ==
    /\ variant = "F" /\ pc = "preparing" /\ ready = <<>>
    /\ \/ F_EnterFailurePath(ContextPreparationError("LookupError")) /\ exec' = exec
       \/ pc' = "summarizing" /\ UNCHANGED <<exec, exc>>
       \/ F_StartExecute
    /\ UNCHANGED <<hvars, lastBulk, variant, exhausted, cur, is_running, shutdown_event, stopCalled, status,
                   emitted, emittedSeq, ready, inflight, buf, timer, liveTimers, issued, bulkInFlight,
                   errEvents, failedUpdates, shutdownFlushes, svars>>

\* summarize_feedback ends: it returned, or it raised.
F_FeedbackSummary ==
    /\ variant = "F" /\ pc = "summarizing" /\ ready = <<>>
    /\ \/ F_EnterFailurePath(ContextPreparationError("SummarizerError")) /\ exec' = exec
       \/ F_StartExecute
    /\ UNCHANGED <<hvars, lastBulk, variant, exhausted, cur, is_running, shutdown_event, stopCalled, status,
                   emitted, emittedSeq, ready, inflight, buf, timer, liveTimers, issued, bulkInFlight,
                   errEvents, failedUpdates, shutdownFlushes, svars>>

\* ------------------------------------------------- F: the executor
\* execute calls event_queue.enqueue_event with a status event:
\* create_task(enqueue_ui_event_coalesced(payload)).
F_ExecEmitStatus ==
    /\ variant = "F" /\ pc = "executing" /\ exec[cur] = "running"
    /\ emitted < MaxEvents
    /\ emitted' = emitted + 1
    /\ ready' = Append(ready, StatusRecord(cur, emitted + 1))
    /\ emittedSeq' = Append(emittedSeq, StatusRecord(cur, emitted + 1))
    /\ UNCHANGED <<hvars, lastBulk, variant, exhausted, pc, cur, is_running, shutdown_event, stopCalled, status,
                   exec, inflight, buf, timer, liveTimers, issued, bulkInFlight, errEvents, failedUpdates,
                   exc, shutdownFlushes, svars>>

\* execute returns: task_done() makes the crew_completed task, process_todolist_item
\* returns, run() resets _current_todo_id and goes to the loop head.
F_ExecReturn ==
    /\ variant = "F" /\ pc = "executing" /\ exec[cur] = "running"
    /\ exec' = [exec EXCEPT ![cur] = "returned"]
    /\ ready' = Append(ready, CrewCompleted(cur))
    /\ emittedSeq' = Append(emittedSeq, CrewCompleted(cur))
    /\ cur' = NoTask
    /\ F_LoopHead(is_running)
    /\ UNCHANGED <<hvars, variant, exhausted, is_running, shutdown_event, stopCalled, status, emitted,
                   inflight, errEvents, failedUpdates, exc, svars>>

\* An execute whose exception is followed by task_done (as from a finally).
F_ExecRaiseWithTaskDone ==
    /\ variant = "F" /\ pc = "executing" /\ exec[cur] = "running"
    /\ exec' = [exec EXCEPT ![cur] = "raised"]
    /\ ready' = Append(ready, CrewCompleted(cur))
    /\ emittedSeq' = Append(emittedSeq, CrewCompleted(cur))
    /\ F_EnterFailurePath([cls |-> "ExecutorError", original |-> "none"])
    /\ UNCHANGED <<hvars, lastBulk, variant, exhausted, cur, is_running, shutdown_event,
                   stopCalled, status, emitted, inflight, buf, timer, liveTimers, issued,
                   bulkInFlight, errEvents, failedUpdates, shutdownFlushes,
                   svars>>

\* execute raises: the except branch of process_todolist_item.
F_ExecRaise ==
    /\ variant = "F" /\ pc = "executing" /\ exec[cur] = "running"
    /\ exec' = [exec EXCEPT ![cur] = "raised"]
    /\ F_EnterFailurePath([cls |-> "ExecutorError", original |-> "none"])
    /\ UNCHANGED <<hvars, lastBulk, variant, exhausted, cur, is_running, shutdown_event, stopCalled, status,
                   emitted, emittedSeq, ready, inflight, buf, timer, liveTimers, issued, bulkInFlight,
                   errEvents, failedUpdates, shutdownFlushes, svars>>

\* ------------------------------------------------- F: the failure path
\* summarize_error_to_user ends (it returned, or it raised and friendly_text is
\* None; the payload is built either way): create_task(record_event(payload)),
\* and update_task_error is awaited.
F_ErrSummaryDone ==
    /\ variant = "F" /\ pc = "err_summary" /\ ready = <<>>
    /\ ready' = Append(ready, ErrorEvent(cur))
    /\ pc' = "marking"
    /\ UNCHANGED <<hvars, lastBulk, variant, exhausted, cur, is_running, shutdown_event, stopCalled, status, exec,
                   emitted, emittedSeq, inflight, buf, timer, liveTimers, issued, bulkInFlight, errEvents,
                   failedUpdates, exc, shutdownFlushes, svars>>

\* update_task_error ends: the update to FAILED was applied by one attempt, or
\* every attempt failed.  process_todolist_item returns without re-raising.
F_MarkDone ==
    /\ variant = "F" /\ pc = "marking" /\ ready = <<>>
    /\ \E applied \in RetryResults :
        IF applied
        THEN /\ status' = [status EXCEPT ![cur] = "FAILED"]
             /\ failedUpdates' = [failedUpdates EXCEPT ![cur] = @ + 1]
             /\ UNCHANGED exhausted
        ELSE /\ exhausted' = exhausted \cup {UpdateTaskError(cur)}
             /\ UNCHANGED <<status, failedUpdates>>
    /\ exc' = NoExc
    /\ cur' = NoTask
    /\ F_LoopHead(is_running)
    /\ UNCHANGED <<hvars, variant, is_running, shutdown_event, stopCalled, exec, emitted,
                   emittedSeq, ready, inflight, errEvents, svars>>

\* The record_event task starts: its insert goes to the store.
RunRecordEventTask ==
    /\ ready # <<>> /\ Head(ready).kind = "record_event"
    /\ ready' = Tail(ready)
    /\ inflight' = inflight \cup {Head(ready)}
    /\ UNCHANGED <<hvars, lastBulk, variant, exhausted, pc, cur, is_running, shutdown_event, stopCalled, status,
                   exec, emitted, emittedSeq, buf, timer, liveTimers, issued, bulkInFlight, errEvents,
                   failedUpdates, exc, shutdownFlushes, svars>>

\* record_event ends: the row was inserted by one attempt, or every attempt failed.
RecordEventDone ==
    \E r \in inflight : \E applied \in RetryResults :
        /\ r.kind = "record_event" /\ ready = <<>>
        /\ inflight' = inflight \ {r}
        /\ errEvents' = IF applied
                        THEN [errEvents EXCEPT ![r.todo] = Append(@, r)]
                        ELSE errEvents
        /\ exhausted' = IF applied THEN exhausted ELSE exhausted \cup {r}
        /\ UNCHANGED <<hvars, lastBulk, variant, pc, cur, is_running, shutdown_event, stopCalled,
                       status, exec, emitted, emittedSeq, ready, buf, timer, liveTimers,
                       issued, bulkInFlight, failedUpdates, exc, shutdownFlushes,
                   svars>>

\* The record_events_bulk call of run()'s exit flush ends (an exception of it
\* is caught and logged): run() returns.
F_FlushDone ==
    /\ variant = "F" /\ pc = "flushing" /\ ready = <<>>
    /\ pc' = "returned"
    /\ UNCHANGED <<hvars, lastBulk, variant, exhausted, cur, is_running, shutdown_event, stopCalled, status, exec,
                   emitted, emittedSeq, ready, inflight, buf, timer, liveTimers, issued,
                   bulkInFlight, errEvents, failedUpdates, exc, shutdownFlushes,
                   svars>>

\* ------------------------------------------------- shutdown requests
\* stop(): is_running = False; the F server also sets _shutdown_event.
Stop ==
    /\ ready = <<>>
    /\ is_running' = FALSE
    /\ shutdown_event' = IF variant = "F" THEN TRUE ELSE shutdown_event
    /\ stopCalled' = TRUE
    /\ UNCHANGED <<hvars, lastBulk, variant, exhausted, pc, cur, status, exec, emitted, emittedSeq, ready,
                   inflight, buf, timer, liveTimers, issued, bulkInFlight, errEvents, failedUpdates, exc,
                   shutdownFlushes, svars>>

\* SIGTERM or SIGINT, once run() has installed the handlers (F only).
Signal ==
    /\ variant = "F" /\ pc # "init" /\ ~shutdown_event /\ ready = <<>>
    /\ shutdown_event' = TRUE
    /\ UNCHANGED <<hvars, lastBulk, variant, exhausted, pc, cur, is_running, stopCalled, status, exec, emitted,
                   emittedSeq, ready, inflight, buf, timer, liveTimers, issued, bulkInFlight, errEvents,
                   failedUpdates, exc, shutdownFlushes, svars>>

\* ------------------------------------------------- S: the polling loop
\* The states of an execute task in which the executor's code is still running.
ExecActive(t) == exec[t] \in {"running", "lingering"}

\* A loop the task's exception gets out of.
S_LoopHeadRaising(r) == pc' = IF r /\ exc = NoExc THEN "polling" ELSE "returned"

\* The head of run()'s while loop in the S server: only is_running is tested.
S_LoopHead(r) == pc' = IF r THEN "polling" ELSE "returned"

\* run(): is_running = True, then the first loop test.
S_RunStart ==
    /\ variant = "S" /\ pc = "init"
    /\ is_running' = TRUE
    /\ S_LoopHead(TRUE)
    /\ UNCHANGED <<hvars, lastBulk, variant, exhausted, cur, shutdown_event, stopCalled, status, exec, emitted,
                   emittedSeq, ready, inflight, buf, timer, liveTimers, issued, bulkInFlight,
                   errEvents, failedUpdates, exc, shutdownFlushes, svars>>

\* polling_pending_todos returns: no row (sleep polling_interval; an exception
\* of the poll step is caught by run() and followed by the same sleep), or one
\* claimed row, for which _prepare_service_data is awaited.
S_PollReturn ==
    /\ variant = "S" /\ pc = "polling" /\ ready = <<>>
    /\ \/ /\ pc' = "sleeping"
          /\ UNCHANGED <<cur, status>>
       \/ \E t \in Tasks :
            /\ status[t] = "pending"
            /\ \A u \in Tasks : status[u] = "pending" => t <= u
            /\ status' = [status EXCEPT ![t] = "in_progress"]
            /\ cur' = t
            /\ pc' = "preparing"
    /\ UNCHANGED <<hvars, lastBulk, variant, exhausted, is_running, shutdown_event, stopCalled, exec, emitted,
                   emittedSeq, ready, inflight, buf, timer, liveTimers, issued, bulkInFlight,
                   errEvents, failedUpdates, exc, shutdownFlushes, svars>>

\* asyncio.sleep(polling_interval) ends.
S_SleepDone ==
    /\ variant = "S" /\ pc = "sleeping" /\ ready = <<>>
    /\ S_LoopHead(is_running)
    /\ UNCHANGED <<hvars, lastBulk, variant, exhausted, cur, is_running, shutdown_event, stopCalled, status, exec,
                   emitted, emittedSeq, ready, inflight, buf, timer, liveTimers, issued,
                   bulkInFlight, errEvents, failedUpdates, exc, shutdownFlushes, svars>>

\* _prepare_service_data ends.  It raised: the except branch of run() awaits
\* update_task_error.  It returned: _execute_with_cancel_watch makes the execute
\* task and the watcher task and awaits asyncio.wait(FIRST_COMPLETED).
S_PrepareDone ==
    /\ variant = "S" /\ pc = "preparing" /\ ready = <<>>
    /\ \/ /\ pc' = "marking"
          /\ exc' = [cls |-> "PrepareError", original |-> "none"]
          /\ UNCHANGED <<exec, watcher>>
       \/ /\ pc' = "waiting"
          /\ exec' = [exec EXCEPT ![cur] = "running"]
          /\ watcher' = "sleeping"
          /\ exc' = exc
    /\ UNCHANGED <<hvars, lastBulk, variant, exhausted, cur, is_running, shutdown_event, stopCalled, status,
                   emitted, emittedSeq, ready, inflight, buf, timer, liveTimers, issued,
                   bulkInFlight, errEvents, failedUpdates, shutdownFlushes,
                   cancelObserved, saveCalls, watchLog>>

\* update_task_error of run()'s except branch ends; continue.
S_MarkDone ==
    /\ variant = "S" /\ pc = "marking" /\ ready = <<>>
    /\ \E applied \in RetryResults :
        IF applied
        THEN /\ status' = [status EXCEPT ![cur] = "FAILED"]
             /\ failedUpdates' = [failedUpdates EXCEPT ![cur] = @ + 1]
             /\ UNCHANGED exhausted
        ELSE /\ exhausted' = exhausted \cup {UpdateTaskError(cur)}
             /\ UNCHANGED <<status, failedUpdates>>
    /\ exc' = NoExc
    /\ cur' = NoTask
    /\ S_LoopHead(is_running)
    /\ UNCHANGED <<hvars, lastBulk, variant, is_running, shutdown_event, stopCalled, exec, emitted,
                   emittedSeq, ready, inflight, buf, timer, liveTimers, issued, bulkInFlight,
                   errEvents, shutdownFlushes, svars>>

\* A watcher whose calls after executor.cancel are not in a finally block.
WatcherWithoutFinally(raised) ==
    IF raised THEN <<>> ELSE <<"execute_task.cancel", "event_queue.close">>

\* The finally block of the watcher, run whether executor.cancel raised or
\* not: execute_task.cancel(), then await event_queue.close(), each in its
\* own try.
WatcherFinally(raised) == <<"execute_task.cancel", "event_queue.close">>

\* What execute_task.cancel() comes to, by the state of the execute task: a
\* finished task is left as it is; a running executor gets CancelledError at its
\* suspension point and either ends there or catches it and goes on.
CancelReactions(st) ==
    IF st \in {"running", "lingering"} THEN {"cancelled", "lingering"} ELSE {st}

\* A wait that leaves the pending task alone.
PendingLeftRunning(e, w) == {}

\* for task in pending: task.cancel() -- the tasks asyncio.wait returned as
\* pending, by the state e of the execute task and w of the watcher.
PendingCancels(e, w) ==
    (IF e \in {"running", "lingering"} THEN {"execute_task"} ELSE {})
        \cup (IF w # "done" THEN {"cancel_watch_task"} ELSE {})

\* A wait that hands the cancellation of the execute task to run()'s except
\* branch as an error of the task.
S_WaitReturnCancelAsError ==
    /\ variant = "S" /\ pc = "waiting" /\ ready = <<>>
    /\ exec[cur] \in {"returned", "raised", "cancelled"} \/ watcher = "done"
    /\ LET pending == PendingCancels(exec[cur], watcher) IN
        /\ watcher' = IF "cancel_watch_task" \in pending THEN "cancelled" ELSE watcher
        /\ watchLog' = IF "cancel_watch_task" \in pending /\ watcher = "cancelling"
                       THEN [watchLog EXCEPT ![cur] = @ \o WatcherFinally(TRUE)]
                       ELSE watchLog
        /\ \E st \in (IF "execute_task" \in pending
                      THEN CancelReactions(exec[cur]) ELSE {exec[cur]}) :
              exec' = [exec EXCEPT ![cur] = st]
    /\ IF cur \in cancelObserved
       THEN pc' = "marking" /\ cur' = cur
       ELSE cur' = NoTask /\ S_LoopHead(is_running)
    /\ UNCHANGED <<hvars, lastBulk, variant, exhausted, is_running, shutdown_event, stopCalled,
                   status, emitted, emittedSeq, ready, inflight, buf,
                   timer, liveTimers, issued, bulkInFlight, errEvents, failedUpdates, exc,
                   shutdownFlushes, cancelObserved, saveCalls>>

\* asyncio.wait returns because the execute task or the watcher task is done.
\* The task still pending gets cancel() (not awaited); an exception held by the
\* execute task is not retrieved.  The finally block runs, the function
\* returns, and run() goes to the loop head.
S_WaitReturn ==
    /\ variant = "S" /\ pc = "waiting" /\ ready = <<>>
    /\ exec[cur] \in {"returned", "raised", "cancelled"} \/ watcher = "done"
    /\ LET pending == PendingCancels(exec[cur], watcher) IN
        /\ watcher' = IF "cancel_watch_task" \in pending THEN "cancelled" ELSE watcher
        /\ watchLog' = IF "cancel_watch_task" \in pending /\ watcher = "cancelling"
                       THEN [watchLog EXCEPT ![cur] = @ \o WatcherFinally(TRUE)]
                       ELSE watchLog
        /\ \E st \in (IF "execute_task" \in pending
                      THEN CancelReactions(exec[cur]) ELSE {exec[cur]}) :
              exec' = [exec EXCEPT ![cur] = st]
    /\ cur' = NoTask
    /\ S_LoopHead(is_running)
    /\ UNCHANGED <<hvars, lastBulk, variant, exhausted, is_running, shutdown_event, stopCalled, status,
                   emitted, emittedSeq, ready, inflight, buf, timer, liveTimers, issued,
                   bulkInFlight, errEvents, failedUpdates, exc, shutdownFlushes,
                   cancelObserved, saveCalls>>

\* ------------------------------------------------- S: the executor
ProcessEvent(t) == BgTask("process_event", t, 0, "output")

\* The executor's code (execute, also one that went on after a cancel request)
\* calls enqueue_event: _create_bg_task schedules process_event_message.
S_ExecEmit ==
    /\ variant = "S"
    /\ \E t \in Tasks :
        /\ ExecActive(t)
        /\ emitted < MaxEvents
        /\ emitted' = emitted + 1
        /\ ready' = Append(ready, ProcessEvent(t))
    /\ UNCHANGED <<hvars, lastBulk, variant, exhausted, pc, cur, is_running, shutdown_event, stopCalled, status,
                   exec, emittedSeq, inflight, buf, timer, liveTimers, issued, bulkInFlight,
                   errEvents, failedUpdates, exc, shutdownFlushes, svars>>

\* The executor's code ends: execute returns, or raises.
S_ExecEnd ==
    /\ variant = "S"
    /\ \E t \in Tasks : \E how \in {"returned", "raised"} :
        /\ ExecActive(t)
        /\ exec' = [exec EXCEPT ![t] = how]
    /\ UNCHANGED <<hvars, lastBulk, variant, exhausted, pc, cur, is_running, shutdown_event, stopCalled, status,
                   emitted, emittedSeq, ready, inflight, buf, timer, liveTimers, issued,
                   bulkInFlight, errEvents, failedUpdates, exc, shutdownFlushes, svars>>

\* process_event_message of an output event: save_task_result is called.
S_RunProcessEvent ==
    /\ ready # <<>> /\ Head(ready).kind = "process_event"
    /\ ready' = Tail(ready)
    /\ saveCalls' = [saveCalls EXCEPT ![Head(ready).todo] = @ + 1]
    /\ UNCHANGED <<hvars, lastBulk, variant, exhausted, pc, cur, is_running, shutdown_event, stopCalled, status,
                   exec, emitted, emittedSeq, inflight, buf, timer, liveTimers, issued,
                   bulkInFlight, errEvents, failedUpdates, exc, shutdownFlushes,
                   watcher, cancelObserved, watchLog>>

\* ------------------------------------------------- S: the watcher
\* The texts others write to draft_status to cancel a task or to ask for
\* feedback on it: the store does not fix their case or padding.
CancelWrites == {" Cancelled ", "fb_requested"}

\* (status or "").strip().lower(), on the status texts of the model.
NoStatus == "<None>"

\* fetch_task_status: the draft_status of the row, or None when no attempt
\* of the read returned a row.
FetchTaskStatus(draft_status, read) == IF read THEN draft_status ELSE NoStatus

\* (status or "").strip().lower()
Normalize(st) ==
    CASE st = NoStatus -> ""
      [] st = " Cancelled " -> "cancelled"
      [] st = "FAILED" -> "failed"
      [] OTHER -> st

\* A test that also takes the normal form of a missing status for a request.
EmptyStatusCancels(st) == st \in {"cancelled", "fb_requested", ""}

\* normalized in ("cancelled", "fb_requested")
IsCancelStatus(st) == st \in {"cancelled", "fb_requested"}

\* Someone outside the worker cancels the task, or asks for feedback.
ExternalCancel ==
    /\ variant = "S" /\ cur # NoTask /\ status[cur] = "in_progress" /\ ready = <<>>
    /\ \E st \in CancelWrites : status' = [status EXCEPT ![cur] = st]
    /\ UNCHANGED <<hvars, lastBulk, variant, exhausted, pc, cur, is_running, shutdown_event, stopCalled, exec,
                   emitted, emittedSeq, ready, inflight, buf, timer, liveTimers, issued,
                   bulkInFlight, errEvents, failedUpdates, exc, shutdownFlushes, svars>>

\* asyncio.sleep(cancel_check_interval) ends: fetch_task_status is called.
W_SleepDone ==
    /\ variant = "S" /\ pc = "waiting" /\ watcher = "sleeping" /\ ready = <<>>
    /\ watcher' = "fetching"
    /\ UNCHANGED <<hvars, lastBulk, variant, exhausted, pc, cur, is_running, shutdown_event, stopCalled, status,
                   exec, emitted, emittedSeq, ready, inflight, buf, timer, liveTimers, issued,
                   bulkInFlight, errEvents, failedUpdates, exc, shutdownFlushes,
                   cancelObserved, saveCalls, watchLog>>

\* fetch_task_status ends with the status read (None when every attempt
\* failed).  On cancelled / fb_requested the watcher awaits executor.cancel;
\* otherwise it sleeps again.
W_FetchDone ==
    /\ variant = "S" /\ pc = "waiting" /\ watcher = "fetching" /\ ready = <<>>
    /\ \E read \in RetryResults :
        IF IsCancelStatus(Normalize(FetchTaskStatus(status[cur], read)))
        THEN /\ watcher' = "cancelling"
             /\ cancelObserved' = cancelObserved \cup {cur}
             /\ watchLog' = [watchLog EXCEPT ![cur] = Append(@, "executor.cancel")]
        ELSE /\ watcher' = "sleeping"
             /\ UNCHANGED <<cancelObserved, watchLog>>
    /\ UNCHANGED <<hvars, lastBulk, variant, exhausted, pc, cur, is_running, shutdown_event, stopCalled, status,
                   exec, emitted, emittedSeq, ready, inflight, buf, timer, liveTimers, issued,
                   bulkInFlight, errEvents, failedUpdates, exc, shutdownFlushes,
                   saveCalls>>

\* executor.cancel, awaited by the watcher, calls enqueue_event.
W_CancelEmit ==
    /\ variant = "S" /\ pc = "waiting" /\ watcher = "cancelling"
    /\ emitted < MaxEvents
    /\ emitted' = emitted + 1
    /\ ready' = Append(ready, ProcessEvent(cur))
    /\ UNCHANGED <<hvars, lastBulk, variant, exhausted, pc, cur, is_running, shutdown_event,
                   stopCalled, status, exec, emittedSeq, inflight, buf, timer, liveTimers,
                   issued, bulkInFlight, errEvents, failedUpdates, exc,
                   shutdownFlushes, svars>>

\* executor.cancel ends, by returning or by raising (the exception is
\* logged).  The finally block runs, then break ends the watcher.
W_CancelDone ==
    /\ variant = "S" /\ pc = "waiting" /\ watcher = "cancelling" /\ ready = <<>>
    /\ \E raised \in BOOLEAN :
        LET calls == WatcherFinally(raised) IN
        /\ watchLog' = [watchLog EXCEPT ![cur] = @ \o calls]
        /\ \E st \in (IF \E i \in DOMAIN calls : calls[i] = "execute_task.cancel"
                      THEN CancelReactions(exec[cur]) ELSE {exec[cur]}) :
              exec' = [exec EXCEPT ![cur] = st]
    /\ watcher' = "done"
    /\ UNCHANGED <<hvars, lastBulk, variant, exhausted, pc, cur, is_running, shutdown_event,
                   stopCalled, status, emitted, emittedSeq, ready, inflight,
                   buf, timer, liveTimers, issued, bulkInFlight, errEvents, failedUpdates,
                   exc, shutdownFlushes, cancelObserved, saveCalls>>

\* ------------------------------------------- S: the watcher, followed alone
\* What the draft_status of the watched row can be.
WatchedStatuses == CancelWrites \cup {"in_progress", "completed"}

\* A watcher that has just been started: it sleeps before its first poll.
\* reads is the history of the values fetch_task_status returned, log the
\* history of the calls the watcher made on the executor, the execute task
\* and the queue.
WatchStart ==
    [pc |-> "sleeping", draft_status |-> "in_progress", reads |-> <<>>,
     log |-> <<>>]

\* Another process writes the draft_status of the row.
Watch_StatusWrite ==
    /\ watch.pc \in {"sleeping", "fetching"}
    /\ \E st \in WatchedStatuses \ {watch.draft_status} :
          watch' = [watch EXCEPT !.draft_status = st]
    /\ UNCHANGED <<wvars, retry, enq, prep, fleet, art, handler>>

\* await asyncio.sleep(self.cancel_check_interval) ends.
Watch_SleepDone ==
    /\ watch.pc = "sleeping" /\ Len(watch.reads) < MaxPolls
    /\ watch' = [watch EXCEPT !.pc = "fetching"]
    /\ UNCHANGED <<wvars, retry, enq, prep, fleet, art, handler>>

\* status = await fetch_task_status(todo_id); the test of its normal form.
Watch_FetchDone ==
    /\ watch.pc = "fetching"
    /\ \E read \in RetryResults :
          LET fetched == FetchTaskStatus(watch.draft_status, read)
              normalized == Normalize(fetched) IN
          watch' = [watch EXCEPT
              !.reads = Append(@, fetched),
              !.pc = IF IsCancelStatus(normalized) THEN "cancelling"
                     ELSE "sleeping",
              !.log = IF IsCancelStatus(normalized)
                      THEN Append(@, "executor.cancel") ELSE @]
    /\ UNCHANGED <<wvars, retry, enq, prep, fleet, art, handler>>

\* executor.cancel ends, by returning or by raising; finally; break.
Watch_CancelDone ==
    /\ watch.pc = "cancelling"
    /\ \E raised \in BOOLEAN :
          watch' = [watch EXCEPT !.pc = "done",
                                 !.log = @ \o WatcherFinally(raised)]
    /\ UNCHANGED <<wvars, retry, enq, prep, fleet, art, handler>>

\* ------------------------------------ process_event_message, step by step
\* What data.get("type") can be ("<absent>": no such key, and no event_type).
EventTypes == {"done", "DONE", "output", "event", "progress", "<absent>"}

\* str(data.get("type") or data.get("event_type") or "").lower()
EvtType(type) ==
    CASE type = "<absent>" -> ""
      [] type = "DONE" -> "done"
      [] OTHER -> type

\* What a dict has under "final" and under "is_final".
Flags == {"absent", "True", "False"}

\* What data.get("data") can be: None, a text, a dict.
EventData ==
    {PyNone, [type |-> "str", s |-> "text"]}
        \cup [type : {"dict"}, final : Flags, is_final : Flags]

\* data.get("data") or {}
PayloadOf(data) ==
    IF data = PyNone THEN [type |-> "dict", final |-> "absent", is_final |-> "absent"]
    ELSE data

\* bool(payload.get("final") or payload.get("is_final")) if
\* isinstance(payload, dict) else False
IsFinal(payload) ==
    IF payload.type = "dict"
    THEN payload.final = "True" \/ payload.is_final = "True"
    ELSE FALSE

\* record_event(todo, data, event_type=None) of core/database.py, called with
\* the positional arguments args: the call raises TypeError when a parameter
\* without default gets no argument, and gives the coroutine otherwise.
CallRecordEvent(args) ==
    IF Len(args) < RecordEventRequired THEN Raised("TypeError")
    ELSE Returned([kind |-> "record_event", final |-> FALSE])

\* save_task_result(str(todo.get("id")), content, final=is_final)
CallSaveTaskResult(is_final) ==
    Returned([kind |-> "save_task_result", final |-> is_final])

\* SafeToolLoader.adapters as earlier tool loads can have left it.
AdapterSets == SUBSET {"a1", "a2"}

\* shutdown_all_adapters: every adapter is stopped (an exception of stop is
\* logged) and the list is cleared.
ShutdownAllAdapters(adapters) == {}

\* handle_application_error(title, error, raise_error=...): TRUE when the
\* error is raised again.
HandleApplicationError(raise_error) == raise_error

\* The calls of process_event_message: the type and the data of the event,
\* the adapters that are open.  entered is the history of the store
\* functions whose body ran, raised says that an exception left the call.
HandlerCalls ==
    {[pc |-> "start", type |-> ty, data |-> d, loaded |-> a, adapters |-> a,
      evt_type |-> "", call |-> PyNone, entered |-> <<>>, exc |-> "none",
      raised |-> FALSE] :
        ty \in EventTypes, d \in EventData, a \in AdapterSets}

\* From the entry to the first await: the type is read and the branch of
\* the type evaluates its call, or there is no branch and the call returns.
H_Start ==
    /\ handler.pc = "start"
    /\ LET evt == EvtType(handler.type)
           payload == PayloadOf(handler.data)
           r == IF evt \in {"done", "event"} THEN CallRecordEvent(<<payload>>)
                ELSE CallSaveTaskResult(IsFinal(payload)) IN
        handler' =
            IF evt \notin {"done", "output", "event"}
            THEN [handler EXCEPT !.pc = "returned", !.evt_type = evt]
            ELSE IF r.raised
            THEN [handler EXCEPT !.pc = "except", !.evt_type = evt,
                                 !.exc = r.value.type]
            ELSE [handler EXCEPT !.pc = "awaiting", !.evt_type = evt,
                                 !.call = r.value]
    /\ UNCHANGED <<wvars, retry, enq, prep, fleet, art, watch>>

\* The awaited store function ends (it raises nothing: _async_retry with a
\* fallback); done then shuts the adapters down; return.
H_AwaitDone ==
    /\ handler.pc = "awaiting"
    /\ \E applied \in RetryResults :
          handler' = [handler EXCEPT
              !.pc = "returned",
              !.entered = Append(@, handler.call),
              !.adapters = IF handler.evt_type = "done"
                           THEN ShutdownAllAdapters(@) ELSE @]
    /\ UNCHANGED <<wvars, retry, enq, prep, fleet, art, watch>>

\* except Exception: handle_application_error(..., raise_error=False).
H_Except ==
    /\ handler.pc = "except"
    /\ handler' = [handler EXCEPT !.pc = "returned",
                                  !.raised = HandleApplicationError(FALSE)]
    /\ UNCHANGED <<wvars, retry, enq, prep, fleet, art, watch>>

\* ------------------------------------------------- specification
\* The state after construction of the server named v, with every task pending.
Constructed(v) ==
    /\ variant = v
    /\ pc = "init"
    /\ cur = NoTask
    /\ is_running = FALSE
    /\ shutdown_event = FALSE
    /\ stopCalled = FALSE
    /\ status = [t \in Tasks |-> "pending"]
    /\ exec = [t \in Tasks |-> "idle"]
    /\ emitted = 0
    /\ emittedSeq = <<>>
    /\ ready = <<>>
    /\ inflight = {}
    /\ buf = <<>>
    /\ timer = "none"
    /\ issued = <<>>
    /\ bulkInFlight = 0
    /\ liveTimers = 0
    /\ lastBulk = 0
    /\ errEvents = [t \in Tasks |-> <<>>]
    /\ failedUpdates = [t \in Tasks |-> 0]
    /\ exhausted = {}
    /\ exc = NoExc
    /\ shutdownFlushes = 0
    /\ watcher = "none"
    /\ cancelObserved = {}
    /\ saveCalls = [t \in Tasks |-> 0]
    /\ watchLog = [t \in Tasks |-> <<>>]

\* No helper function is being followed alone.
HelpersIdle == retry = NoCall /\ enq = NoCall /\ prep = NoCall /\ fleet = NoCall /\ art = NoCall /\ watch = NoCall /\ handler = NoCall

InitF == Constructed("F") /\ HelpersIdle

InitS == Constructed("S") /\ HelpersIdle

Init == \E v \in {"F", "S"} : Constructed(v) /\ HelpersIdle

\* _async_retry called alone ("R"), with any of the calls.
InitR ==
    /\ Constructed("R") /\ retry \in RetryCalls /\ enq = NoCall /\ prep = NoCall
    /\ fleet = NoCall /\ art = NoCall /\ watch = NoCall /\ handler = NoCall

\* enqueue_event called alone ("E"), with any of the events.
InitE ==
    /\ Constructed("E") /\ retry = NoCall /\ enq \in EnqueueCalls /\ prep = NoCall
    /\ fleet = NoCall /\ art = NoCall /\ watch = NoCall /\ handler = NoCall

\* The try block of process_todolist_item run alone ("P"), on any row.
InitP ==
    /\ Constructed("P") /\ retry = NoCall /\ enq = NoCall /\ prep \in PrepareCalls
    /\ fleet = NoCall /\ art = NoCall /\ watch = NoCall /\ handler = NoCall

\* Several workers of one agent type on one store ("W"), all of them claiming
\* through the RPC or all of them selecting the pending rows.
InitW ==
    /\ Constructed("W") /\ retry = NoCall /\ enq = NoCall /\ prep = NoCall
    /\ fleet \in FleetStarts /\ art = NoCall /\ watch = NoCall /\ handler = NoCall

\* The artifact saves of one task and the end of its processing ("A").
InitA ==
    /\ Constructed("A") /\ retry = NoCall /\ enq = NoCall /\ prep = NoCall
    /\ fleet = NoCall /\ art = ArtifactStart /\ watch = NoCall /\ handler = NoCall

\* One cancellation watcher followed alone ("X").
InitX ==
    /\ Constructed("X") /\ retry = NoCall /\ enq = NoCall /\ prep = NoCall
    /\ fleet = NoCall /\ art = NoCall /\ watch = WatchStart /\ handler = NoCall

\* One call of process_event_message followed alone ("H").
InitH ==
    /\ Constructed("H") /\ retry = NoCall /\ enq = NoCall /\ prep = NoCall
    /\ fleet = NoCall /\ art = NoCall /\ watch = NoCall
    /\ handler \in HandlerCalls

\* The coalescer followed alone ("C").
InitC == Constructed("C") /\ HelpersIdle

\* The coalescer and a producer of records.
NextC == C_Enqueue \/ RunEnqueueTask \/ TimerFire \/ RunFlushTask \/ BulkDone

\* The worker of processgpt_agent_framework.py.
NextF ==
    \/ F_RunStart \/ F_PollReturn \/ F_SleepDone \/ F_PrepareLookups
    \/ F_FeedbackSummary \/ F_ExecEmitStatus \/ F_ExecReturn
    \/ F_ExecRaise \/ F_ErrSummaryDone \/ F_MarkDone \/ F_FlushDone
    \/ RunEnqueueTask \/ TimerFire \/ RunFlushTask \/ BulkDone
    \/ RunRecordEventTask \/ RecordEventDone
    \/ Stop \/ Signal

\* The worker of server.py.
NextS ==
    \/ S_RunStart \/ S_PollReturn \/ S_SleepDone \/ S_PrepareDone \/ S_MarkDone
    \/ S_WaitReturn \/ S_ExecEmit \/ S_ExecEnd \/ S_RunProcessEvent
    \/ ExternalCancel \/ W_SleepDone \/ W_FetchDone \/ W_CancelEmit \/ W_CancelDone
    \/ Stop

\* Either worker.
Next ==
    \/ F_RunStart \/ F_PollReturn \/ F_SleepDone \/ F_PrepareLookups
    \/ F_FeedbackSummary \/ F_ExecEmitStatus \/ F_ExecReturn
    \/ F_ExecRaise \/ F_ErrSummaryDone \/ F_MarkDone \/ F_FlushDone
    \/ RunEnqueueTask \/ TimerFire \/ RunFlushTask \/ BulkDone
    \/ RunRecordEventTask \/ RecordEventDone
    \/ Stop \/ Signal
    \/ S_RunStart \/ S_PollReturn \/ S_SleepDone \/ S_PrepareDone \/ S_MarkDone
    \/ S_WaitReturn \/ S_ExecEmit \/ S_ExecEnd \/ S_RunProcessEvent
    \/ ExternalCancel \/ W_SleepDone \/ W_FetchDone \/ W_CancelEmit \/ W_CancelDone

\* The workers of a fleet, each at its own pace.
NextW ==
    \/ Fleet_Claim \/ Fleet_ClaimedDone \/ Fleet_FetchPending
    \/ Fleet_MarkInProgress \/ Fleet_ExecuteDone \/ Fleet_RunCatches
    \/ Fleet_SleepDone

\* The artifact saves of one task.
NextA ==
    \/ A_EmitArtifact \/ A_RunSaveTask \/ A_SaveDone \/ A_ExecuteEnd \/ A_MarkDone

\* The watcher and the writers of the row's draft_status.
NextX ==
    \/ Watch_StatusWrite \/ Watch_SleepDone \/ Watch_FetchDone
    \/ Watch_CancelDone

\* One call of process_event_message.
NextH == H_Start \/ H_AwaitDone \/ H_Except

\* One call of _async_retry.
NextR == R_Attempt \/ R_SleepDone \/ R_Final

\* process_todolist_item up to the call of execute or the failure path.
NextP ==
    \/ P_Gather \/ P_Summary \/ P_Execute \/ P_ExecuteDone
    \/ P_FailurePath \/ P_RecordEventDone \/ P_MarkDone

\* One call of enqueue_event.
NextE == E_Artifact \/ E_StatusEventType \/ E_StatusPayload

SpecF == InitF /\ [][NextF]_vars

SpecR == InitR /\ [][NextR]_vars

SpecE == InitE /\ [][NextE]_vars

SpecP == InitP /\ [][NextP]_vars

SpecC == InitC /\ [][NextC]_vars

SpecW == InitW /\ [][NextW]_vars

SpecA == InitA /\ [][NextA]_vars

SpecX == InitX /\ [][NextX]_vars

SpecH == InitH /\ [][NextH]_vars

\* The coalescer on an event loop that keeps running: a task made with
\* create_task is eventually started and a timer set with call_later
\* eventually expires.
LiveC ==
    /\ SpecC
    /\ WF_vars(RunEnqueueTask) /\ WF_vars(RunFlushTask) /\ WF_vars(TimerFire)

\* The F worker on an event loop that keeps running: a task made with
\* create_task is eventually started and a timer set with call_later
\* eventually expires.
LiveF ==
    /\ SpecF
    /\ WF_vars(RunEnqueueTask) /\ WF_vars(RunFlushTask)
    /\ WF_vars(RunRecordEventTask) /\ WF_vars(TimerFire)

SpecS == InitS /\ [][NextS]_vars

Spec == Init /\ [][Next]_vars

\* ------------------------------------------------- claims: failure path
\* Task t went through the except branch of process_todolist_item (F) and
\* process_todolist_item has returned: t was claimed, it is not the task in
\* process, and its execute did not return.
FailurePathDone(t) ==
    /\ variant = "F"
    /\ status[t] # "pending"
    /\ cur # t
    /\ exec[t] # "returned"

\* The record_event task of t's error event has not ended yet.
ErrorRecordPending(t) ==
    \/ ErrorEvent(t) \in inflight
    \/ \E i \in 1..Len(ready) : ready[i] = ErrorEvent(t)

\* C1, as amended: a task has at most one error record and at most one applied
\* update to FAILED; a task that went through the failure path has exactly one
\* applied update to FAILED unless every attempt of update_task_error failed,
\* and, once its record_event task has ended, exactly one error record unless
\* every attempt of record_event failed; a task that did not go through the
\* failure path has neither.
C1_AtMostOneErrorRecordAndFailed ==
    \A t \in Tasks :
        /\ Len(errEvents[t]) <= 1
        /\ failedUpdates[t] <= 1
        /\ FailurePathDone(t) =>
            /\ failedUpdates[t] = IF UpdateTaskError(t) \in exhausted THEN 0 ELSE 1
            /\ ~ErrorRecordPending(t) =>
                Len(errEvents[t]) = IF ErrorEvent(t) \in exhausted THEN 0 ELSE 1
        /\ exec[t] = "returned" => errEvents[t] = <<>> /\ failedUpdates[t] = 0

\* C1 as stated: once the failure path of a task is over and its record_event
\* task has ended, the store holds exactly one error record of the task and
\* exactly one update of it to FAILED was applied, whatever the store calls
\* came to.
C1_ExactlyOneErrorRecordAndFailed ==
    \A t \in Tasks :
        FailurePathDone(t) /\ ~ErrorRecordPending(t) =>
            Len(errEvents[t]) = 1 /\ failedUpdates[t] = 1

\* Two tasks went through the failure path: the first has its error record and
\* its update to FAILED, the second lost its error record to exhausted retries.
C1_Witness ==
    \E t, u \in Tasks :
        /\ FailurePathDone(t) /\ FailurePathDone(u)
        /\ Len(errEvents[t]) = 1 /\ failedUpdates[t] = 1 /\ status[t] = "FAILED"
        /\ ErrorEvent(u) \in exhausted /\ errEvents[u] = <<>>
        /\ failedUpdates[u] = 1

\* ------------------------------------------------- claims: coalescer
\* The records handed to the coalescer whose enqueue task has not run yet.
PendingEnqueues == SelectSeq(ready, LAMBDA r : r.kind = "enq")

\* The status records of task t in sequence q.
StatusEventsOf(q, t) ==
    SelectSeq(q, LAMBDA r : r.event_type = "status" /\ r.todo = t)

\* C2: the records passed to record_events_bulk, call after call in issue
\* order, followed by the records still in the buffer or on their way to it,
\* are the records in the order the executor produced them: nothing is lost,
\* duplicated or reordered, per executor and over all of them.
C2_BulkCallsKeepEmitOrder ==
    /\ issued \o buf \o PendingEnqueues = emittedSeq
    /\ \A t \in Tasks :
        StatusEventsOf(issued \o buf \o PendingEnqueues, t)
            = StatusEventsOf(emittedSeq, t)

\* Every record produced went out, in more records than one flush by
\* threshold takes, while two bulk calls are in progress.
C2_Witness ==
    /\ issued = emittedSeq
    /\ Len(issued) > COALESCE_BATCH
    /\ bulkInFlight = 2
    /\ \E t \in Tasks : Len(StatusEventsOf(issued, t)) = MaxEvents

\* The record_events_bulk calls of the coalescer that are in progress.
BulkCallsInProgress == bulkInFlight + IF pc = "flushing" THEN 1 ELSE 0

\* C3: at no time are two record_events_bulk calls of the coalescer in
\* progress.
C3_FlushesNeverOverlap == BulkCallsInProgress <= 1

\* ------------------------------------------------- claims: S executor
\* C4: at most one executor.execute call is active at any time.
C4_AtMostOneExecuteActive ==
    Cardinality({t \in Tasks : ExecActive(t)}) <= 1

\* C5: once the watcher has observed cancelled or fb_requested for a task, no
\* further save_task_result call is issued for that task.
C5_NoSaveAfterCancelObserved ==
    [][\A t \in cancelObserved : saveCalls'[t] = saveCalls[t]]_vars

\* ------------------------------------------------- claims: task boundary
\* update_task_error has been called for task t and has ended.
UpdateTaskErrorInvoked(t) ==
    failedUpdates[t] > 0 \/ UpdateTaskError(t) \in exhausted

\* C6: when execute raised for a task and the server has finished with the
\* task, update_task_error was invoked for that task.
C6_ExecuteErrorMarksFailed ==
    \A t \in Tasks :
        exec[t] = "raised" /\ cur # t => UpdateTaskErrorInvoked(t)

\* Shutdown has been requested: stop() was called or a signal set the event.
ShutdownRequested == stopCalled \/ shutdown_event

\* The step ends the handling of a failed task: the failure path of F, the
\* except branch of S, or the return of S's wait on an execute that raised.
TaskFailureHandled ==
    /\ cur # NoTask /\ cur' = NoTask
    /\ pc = "marking" \/ exec[cur] = "raised"

\* C7: run() leaves its loop only after shutdown was requested, and while it
\* was not requested the step that ends the handling of a failed task, like
\* the end of a sleep, takes run() to the next claim.
C7_FailureNeverEndsRun ==
    [][/\ pc' \in {"flushing", "returned"} => ShutdownRequested'
       /\ ~ShutdownRequested /\ TaskFailureHandled => pc' = "polling"
       /\ ~ShutdownRequested /\ pc = "sleeping" /\ pc' # pc => pc' = "polling"]_vars

\* A task failed and was marked FAILED, no shutdown was requested, and run()
\* has claimed a later task.
C7_Witness ==
    \E t, u \in Tasks :
        /\ status[t] = "FAILED" /\ failedUpdates[t] = 1
        /\ u = cur /\ t < u /\ status[u] = "in_progress"
        /\ ~ShutdownRequested

\* ------------------------------------------------- claims: shutdown
\* C8 (F): with the shutdown flag set run() does not go to another claim; the
\* task in process ends only by its execute returning or its failure path
\* ending; run() calls the exit flush once, after the task in process has
\* ended, and returns only after that call.
C8_ShutdownIsGraceful ==
    /\ [](/\ shutdownFlushes <= 1
          /\ pc \in {"flushing", "returned"} <=> shutdownFlushes = 1
          /\ pc \in {"flushing", "returned"} => cur = NoTask /\ ShutdownRequested)
    /\ [][/\ shutdown_event /\ pc' = "polling" => pc = "polling"
          /\ cur # NoTask /\ cur' # cur => pc \in {"executing", "marking"}]_vars

\* A signal (not stop()) ended run(): it flushed once and returned, a task
\* had been processed to its end, its records went out, another is unclaimed.
C8_Witness ==
    /\ variant = "F" /\ pc = "returned" /\ shutdownFlushes = 1
    /\ shutdown_event /\ ~stopCalled
    /\ \E t \in Tasks : exec[t] = "returned" /\ CrewCompleted(t) \in {issued[i] : i \in 1..Len(issued)}
    /\ \E t \in Tasks : status[t] = "pending"

\* C9: after stop() was called, the next test of the loop condition makes
\* run() leave the loop: run() does not go on to poll.
C9_StopEndsRun ==
    [][stopCalled /\ pc # "polling" => pc' # "polling"]_vars

\* ------------------------------------------------- claims: preparation
\* C10 (F): while prepare_context runs, execute has not been invoked for the
\* task; a ContextPreparationError carries the exception of the lookup or of
\* the summarizer, is handled by the failure path, and the task's execute is
\* not invoked; execute is invoked only by the step in which prepare_context
\* returns, and a preparation that does not return goes to the failure path.
C10_ExecuteOnlyAfterPrepare ==
    /\ [](/\ cur # NoTask /\ pc \in {"preparing", "summarizing"} => exec[cur] = "idle"
          /\ exc.cls = "ContextPreparationError" =>
                /\ cur # NoTask /\ exec[cur] = "idle"
                /\ pc \in {"err_summary", "marking"}
                /\ exc.original \in {"LookupError", "SummarizerError"}
                /\ RawError(exc) = exc.original)
    /\ [][/\ \A t \in Tasks : exec[t] = "idle" /\ exec'[t] # "idle" =>
                /\ t = cur /\ pc \in {"preparing", "summarizing"}
                /\ pc' = "executing" /\ exec'[t] = "running" /\ exc' = NoExc
          /\ pc \in {"preparing", "summarizing"}
                /\ pc' \notin {pc, "summarizing", "executing"} =>
                /\ pc' = "err_summary" /\ cur' = cur
                /\ exc'.cls = "ContextPreparationError"]_vars

\* The summarizer failed for the second task, after the first task's execute
\* ran: the failure path is at the FAILED marking, the error event's task was
\* made, and execute was not invoked for the second task.
C10_Witness ==
    /\ variant = "F" /\ pc = "marking" /\ cur # NoTask
    /\ exc = ContextPreparationError("SummarizerError")
    /\ exec[cur] = "idle"
    /\ \E t \in Tasks : t # cur /\ exec[t] = "returned"
    /\ ErrorRecordPending(cur)

\* ------------------------------------------------- claims: crew_completed
\* The records that have entered the coalescer buffer, in the order they did.
Coalesced == issued \o buf

\* The number of times record r occurs in sequence q.
Occurrences(q, r) == Len(SelectSeq(q, LAMBDA x : x = r))

\* C11 (F): the crew_completed record of a task is handed to the coalescer
\* once when the task's execute returned and not at all otherwise, and when
\* it enters the buffer every status record the task's execute emitted has
\* entered the buffer before it.
C11_CrewCompletedIffReturned ==
    \A t \in Tasks :
        /\ Occurrences(emittedSeq, CrewCompleted(t))
              = IF exec[t] = "returned" THEN 1 ELSE 0
        /\ \A i \in 1..Len(Coalesced) :
              Coalesced[i] = CrewCompleted(t) =>
                  StatusEventsOf(SubSeq(Coalesced, 1, i), t)
                      = StatusEventsOf(emittedSeq, t)

\* One task's execute emitted a status record and returned, and its
\* crew_completed record is in the buffer or went out; the execute of another
\* emitted a status record and raised, and its failure path is over.
C11_Witness ==
    \E t, u \in Tasks :
        /\ exec[t] = "returned" /\ StatusEventsOf(Coalesced, t) # <<>>
        /\ Occurrences(Coalesced, CrewCompleted(t)) = 1
        /\ exec[u] = "raised" /\ StatusEventsOf(Coalesced, u) # <<>>
        /\ FailurePathDone(u)

\* ------------------------------------------------- claims: cancellation
\* C12 (S): for a task whose watcher observed cancelled or fb_requested, no
\* error event is recorded, update_task_error is not called (the task is not
\* marked FAILED), and no crew_completed record is made.
C12_CancellationIsNotAnError ==
    \A t \in cancelObserved :
        /\ errEvents[t] = <<>>
        /\ ErrorEvent(t) \notin exhausted /\ ~ErrorRecordPending(t)
        /\ ~UpdateTaskErrorInvoked(t) /\ status[t] # "FAILED"
        /\ ~(pc = "marking" /\ cur = t)
        /\ Occurrences(emittedSeq, CrewCompleted(t)) = 0

\* The watcher observed the cancellation of a task, the execute task was
\* cancelled, the wait returned, and run() has claimed the next task.
C12_Witness ==
    \E t, u \in Tasks :
        /\ t \in cancelObserved /\ exec[t] = "cancelled"
        /\ status[t] \in CancelWrites
        /\ u = cur /\ u # t /\ status[u] = "in_progress"

\* The watcher of task t is awaiting executor.cancel.
InExecutorCancel(t) == t = cur /\ watcher = "cancelling"

\* C13 (S): the watcher of a task makes calls exactly when it read a status
\* that normalizes to cancelled or fb_requested; it then calls executor.cancel
\* once, and, when that call has ended by returning or by raising, has
\* called execute_task.cancel() and then event_queue.close(), in this order,
\* and polls the status no more: the execute task is not left running.
C13_WatcherCancelSequence ==
    \A t \in Tasks :
        /\ t \in cancelObserved <=> watchLog[t] # <<>>
        /\ t \in cancelObserved => IsCancelStatus(Normalize(status[t]))
        /\ InExecutorCancel(t) => watchLog[t] = <<"executor.cancel">>
        /\ t \in cancelObserved /\ ~InExecutorCancel(t) =>
              /\ watchLog[t] = <<"executor.cancel", "execute_task.cancel",
                                 "event_queue.close">>
              /\ exec[t] # "running"
        /\ t \in cancelObserved /\ t = cur =>
              watcher \in {"cancelling", "done", "cancelled"}

\* The watcher read " Cancelled ", called executor.cancel, which emitted an
\* event, then cancelled the execute task, which ended, and closed the queue.
C13_Witness ==
    \E t \in Tasks :
        /\ t = cur /\ watcher = "done" /\ status[t] = " Cancelled "
        /\ exec[t] = "cancelled" /\ saveCalls[t] > 0
        /\ watchLog[t] = <<"executor.cancel", "execute_task.cancel",
                           "event_queue.close">>

\* ------------------------------------------------- claims: retry helper
\* The first attempt of call c at which the operation returns (0: none).
FirstSuccess(c) ==
    LET ok == {k \in 1..c.retries : c.outcome[k]} IN
    IF ok = {} THEN 0 ELSE CHOOSE k \in ok : \A m \in ok : k <= m

\* C14: the delay slept after the k-th failure is at least
\* base_delay * 2^(k-1) and less than base_delay * 2^(k-1) + 0.3 s; when the
\* call has returned, the operation was invoked retries times if it failed
\* at every attempt, and k times, its value returned and the fallback not
\* invoked, if it first returned at attempt k.
C14_RetryAttemptsAndDelays ==
    /\ \A k \in 1..Len(retry.slept) :
          /\ retry.slept[k] >= BaseDelayMs * 2^(k - 1)
          /\ retry.slept[k] < BaseDelayMs * 2^(k - 1) + JitterMaxMs
    /\ retry.pc = "returned" =>
          LET k == FirstSuccess(retry) IN
          IF k = 0
          THEN retry.calls = retry.retries /\ Len(retry.slept) = retry.retries
          ELSE /\ retry.calls = k /\ Len(retry.slept) = k - 1
               /\ retry.result = "op_result" /\ retry.fbCalls = 0

\* A call with retries = 3 whose operation failed twice and then returned.
C14_Witness ==
    /\ retry.pc = "returned" /\ retry.retries = Retries
    /\ FirstSuccess(retry) = Retries /\ retry.calls = Retries
    /\ Len(retry.slept) = Retries - 1 /\ retry.result = "op_result"

\* C15: no exception of the operation or of the fallback leaves the call;
\* the fallback is invoked at most once, and not after an attempt that
\* returned; when every attempt failed the call returns the fallback's value
\* if there is a fallback and it returns, and None otherwise.
C15_RetryNeverRaises ==
    /\ ~retry.propagated
    /\ retry.fbCalls <= 1
    /\ retry.pc = "returned" =>
          IF FirstSuccess(retry) # 0
          THEN retry.fbCalls = 0 /\ retry.result = "op_result"
          ELSE /\ retry.result = IF retry.fallback = "value"
                                 THEN "fallback_value" ELSE "None"
               /\ retry.fbCalls = IF retry.fallback = "none" THEN 0 ELSE 1

\* Every one of three attempts failed, the fallback raised, None is returned.
C15_Witness ==
    /\ retry.pc = "returned" /\ retry.retries = Retries
    /\ FirstSuccess(retry) = 0 /\ retry.calls = Retries
    /\ retry.fallback = "raises" /\ retry.fbCalls = 1
    /\ retry.result = "None"

\* ------------------------------------------------- claims: coalescer
\* C16: no record_events_bulk call is passed more than COALESCE_BATCH
\* records.
C16_BulkCallWithinBatch == lastBulk <= COALESCE_BATCH

\* A threshold flush has passed COALESCE_BATCH records in one call.
C16_Witness == lastBulk = COALESCE_BATCH /\ buf = <<>> /\ bulkInFlight > 0

\* The records the executor's events can put in the coalescer.
CoalescerRecords ==
    {StatusRecord(t, n) : t \in Tasks, n \in 1..MaxEvents}
        \cup {CrewCompleted(t) : t \in Tasks}

\* C17: on an event loop that keeps running, every record in the coalescer
\* buffer is eventually passed to record_events_bulk, whenever the enqueues
\* come.
C17_BufferedRecordIsFlushed ==
    \A r \in CoalescerRecords :
        (Occurrences(buf, r) > 0) ~> (Occurrences(issued, r) > 0)

\* A record waits in the buffer, below the threshold, for the timer.
C17_Witness ==
    /\ buf # <<>> /\ Len(buf) < COALESCE_BATCH /\ timer = "armed"
    /\ Occurrences(issued, buf[1]) = 0

\* ------------------------------------------------- claims: enqueue_event
\* C18: the record of a status event handed to the coalescer has event_type
\* "human_asked" when the state is input-required, whatever
\* metadata.event_type is, and metadata.event_type for every other state.
C18_HumanAskedOverridesMetadata ==
    enq.pc = "queued" =>
        enq.event_type = IF enq.state = "input-required"
                         THEN [type |-> "str", s |-> "human_asked"]
                         ELSE enq.metaType

\* An input-required event whose metadata names another event type has been
\* handed to the coalescer as human_asked.
C18_Witness ==
    /\ enq.pc = "queued" /\ enq.state = "input-required"
    /\ enq.metaType = [type |-> "str", s |-> "task_started"]
    /\ enq.event_type = [type |-> "str", s |-> "human_asked"]

\* The source is {parts: [{text: S}]} with S a JSON document.
PartsTextIsJson(src) ==
    LET d == IF src.type = "model" THEN src.dump ELSE src IN
    /\ d.type = "dict" /\ d.parts.type = "list" /\ d.parts.items # <<>>
    /\ d.parts.items[1].type = "dict"
    /\ d.parts.items[1].text.type = "str"
    /\ d.parts.items[1].text.body = "json"

\* C19: when the payload is a string that is not valid JSON, enqueue_event
\* raises nothing, the event is handed on and the extracted value is the
\* string itself; when the payload is {parts: [{text: S}]} with S valid JSON,
\* the extracted value is the parsed document.
C19_NonJsonStringIsKept ==
    enq.pc \in {"saved", "queued", "raised"} =>
        /\ (enq.source.type = "str" /\ enq.source.body # "json") =>
              enq.pc # "raised" /\ enq.data = enq.source
        /\ PartsTextIsJson(enq.source) =>
              enq.pc # "raised" /\ enq.data = [type |-> "parsed"]

\* ------------------------------------------- claims: context preparation
\* Every attempt of the form lookup of the row failed.
FormLookupExhausted == ~AsyncRetrySucceeds(prep.form_attempts)

\* C20 as claimed: if the form-definition lookup fails on all 3 attempts,
\* context preparation fails: execute is not called and the failure path
\* runs, with a raw_error that starts with the class of the lookup's error.
C20_FormLookupFailureFailsPreparation ==
    FormLookupExhausted =>
        /\ prep.pc \notin {"prepared", "executing"}
        /\ prep.pc = "failure_path" => prep.raw_error = "APIError"

\* C20, amended: if the form-definition lookup fails on all 3 attempts, the
\* lookup returns the default form and raises nothing: the preparation fails
\* only when another lookup or the feedback summary raises, and execute is
\* called with the default form otherwise.
C20_FormLookupFailureGivesDefaultForm ==
    FormLookupExhausted =>
        /\ prep.pc \in {"summarizing", "prepared", "executing"} =>
              prep.form = [type |-> "default_form"]
        /\ prep.exc.cls = "ContextPreparationError" =>
              /\ prep.exc.original # "APIError"
              /\ prep.others_raise \/ (prep.feedback /\ prep.summary_raises)
              /\ prep.pc = "failure_path" => prep.raw_error = prep.exc.original

\* Every attempt of the form lookup failed and execute is awaited, with the
\* default form in the context.
C20_Witness ==
    /\ FormLookupExhausted /\ prep.pc = "executing"
    /\ prep.form = [type |-> "default_form"]

\* ------------------------------------------------- claims: the race
\* _execute_with_cancel_watch is awaiting asyncio.wait for task t.
InCancelWatch(t) == variant = "S" /\ pc = "waiting" /\ cur = t

\* C21 (S): when _execute_with_cancel_watch is not waiting, the watcher is
\* done or has been cancelled, and no execute task is running without a
\* cancellation request (one that lingers has caught the request).
C21_RaceLoserIsCancelled ==
    /\ (variant = "S" /\ pc # "waiting") =>
            watcher \in {"none", "done", "cancelled"}
    /\ \A t \in Tasks : exec[t] = "running" => InCancelWatch(t)

\* execute completed first and the watcher, still polling, was cancelled.
C21_Witness ==
    /\ variant = "S" /\ pc # "waiting" /\ watcher = "cancelled"
    /\ \E t \in Tasks : exec[t] = "returned" /\ watchLog[t] = <<>>

\* ------------------------------------------------- claims: the timer
\* The step is a run of enqueue_ui_event_coalesced.
IsEnqueueStep == ready # <<>> /\ Head(ready).kind = "enq" /\ ready' = Tail(ready)

\* C22: an enqueue that brings the buffer to COALESCE_BATCH records flushes
\* it and leaves no timer armed; any other enqueue arms a timer exactly when
\* none is set; at most one timer is armed at any time, and an enqueue that
\* finds the buffer empty and no timer set (the first after a flush) arms one.
C22_EnqueueFlushesOrArmsOneTimer ==
    [][/\ liveTimers' <= 1
       /\ (timer' = "armed") <=> (liveTimers' = 1)
       /\ IsEnqueueStep =>
            IF Len(buf) + 1 >= COALESCE_BATCH
            THEN /\ buf' = <<>> /\ timer' = "none" /\ liveTimers' = 0
                 /\ issued' = issued \o Append(buf, Head(ready))
            ELSE /\ buf' = Append(buf, Head(ready))
                 /\ issued' = issued
                 /\ IF timer = "none"
                    THEN timer' = "armed" /\ liveTimers' = liveTimers + 1
                    ELSE timer' = timer /\ liveTimers' = liveTimers]_vars

\* After a threshold flush, the next enqueue has armed a fresh timer.
C22_Witness ==
    /\ Len(issued) = COALESCE_BATCH /\ lastBulk = COALESCE_BATCH
    /\ Len(buf) = 1 /\ timer = "armed" /\ liveTimers = 1

\* ------------------------------------------------- claims: the flush
\* The step is a run of _flush_events_now: from an enqueue at the threshold,
\* as the task the timer made, or awaited by run() on exit.
IsFlushStep ==
    \/ IsEnqueueStep /\ Len(buf) + 1 >= COALESCE_BATCH
    \/ ready # <<>> /\ Head(ready).kind = "flush" /\ ready' = Tail(ready)
    \/ shutdownFlushes' # shutdownFlushes

\* The buffer the flush of this step finds.
FlushSnapshot == IF IsEnqueueStep THEN Append(buf, Head(ready)) ELSE buf

\* The record_events_bulk calls this step starts.
BulkCallsStarted ==
    (IF bulkInFlight' > bulkInFlight THEN bulkInFlight' - bulkInFlight ELSE 0)
        + (IF pc # "flushing" /\ pc' = "flushing" THEN 1 ELSE 0)

\* C23 (F): a flush takes the whole buffer in one step and leaves it empty
\* with no timer armed; it starts one record_events_bulk call with the
\* snapshot when the snapshot is not empty and none when it is; no other step
\* starts a call, and no record is passed to record_events_bulk twice or is
\* in the buffer after it has been passed.
C23_FlushTakesAllOnce ==
    [][/\ IsFlushStep =>
            /\ buf' = <<>> /\ timer' = "none" /\ liveTimers' = 0
            /\ issued' = issued \o FlushSnapshot
            /\ BulkCallsStarted = IF FlushSnapshot = <<>> THEN 0 ELSE 1
       /\ ~IsFlushStep => issued' = issued /\ BulkCallsStarted = 0
       /\ \A r \in CoalescerRecords :
            Occurrences(issued', r) + Occurrences(buf', r) <= 1]_vars

\* A timer flush has taken two records in one call and left the buffer empty;
\* the call is still in progress.
C23_Witness ==
    /\ buf = <<>> /\ timer = "none" /\ bulkInFlight = 1
    /\ Len(issued) = 2 /\ lastBulk = 2

\* ------------------------------------------------- claims: shared state
\* C24: the coalescer's buffer and timer are the only process-wide mutable
\* state of the worker (no step changes any other module-level variable),
\* and they change only in the steps of enqueue_ui_event_coalesced and
\* _flush_events_now, which hold the coalescer lock.
C24_OnlyCoalescerStateIsShared ==
    [][/\ prep.utils' = prep.utils
       /\ (buf' # buf \/ (timer' # timer /\ timer' # "fired")) =>
              IsEnqueueStep \/ IsFlushStep]_vars

\* ------------------------------------------------- claims: the failure path
\* The try block of process_todolist_item raised.
TaskFailed == prep.exc # NoExc

\* C25: once the summarizer has ended on a failed task the error event has
\* been handed to record_event, with the fixed text as "friendly" when the
\* summarizer raised (or gave an empty text); and when the failure path is
\* over update_task_error has been called, whatever became of the summarizer
\* and of record_event: the task is FAILED unless every attempt of
\* update_task_error itself failed.
C25_FailurePathSurvivesItsOwnFailures ==
    /\ TaskFailed /\ prep.pc \in {"failure_path", "done"} =>
          /\ prep.error_event # PyNone /\ prep.recorded # "none"
          /\ prep.error_event.raw_error = RawError(prep.exc)
          /\ ~Truthy(prep.friendly_text) => prep.error_event.friendly = FallbackText
          /\ Truthy(prep.friendly_text) => prep.error_event.friendly = prep.friendly_text
    /\ TaskFailed /\ prep.pc = "done" => prep.marked \in {"applied", "exhausted"}
    /\ ~TaskFailed => prep.error_event = PyNone /\ prep.marked = "none"

\* The summarizer raised, the error event went out with the fixed text and
\* its record_event failed at every attempt, and the task was marked FAILED.
C25_Witness ==
    /\ TaskFailed /\ prep.pc = "done"
    /\ prep.friendly_text = PyNone /\ prep.error_event.friendly = FallbackText
    /\ prep.recorded = "exhausted" /\ prep.marked = "applied"

\* C26 (F): the error event of a task is in the store before the task is
\* FAILED: in no state is a task FAILED while its error event is not written.
C26_ErrorEventBeforeFailed ==
    \A t \in Tasks :
        variant = "F" /\ status[t] = "FAILED" => Len(errEvents[t]) >= 1

\* ------------------------------------------------- claims: the idle sleep
\* The step ends the processing of a claimed task.
TaskProcessingEnds == cur # NoTask /\ cur' = NoTask

\* C27 (F and S): run() goes to its idle sleep only from a poll that claimed
\* no task (it returned no row or it raised), every such poll is followed by
\* the sleep, and the step that ends the processing of a claimed task,
\* whether it succeeded or failed, never goes to the sleep: it goes to the
\* next claim unless shutdown was requested.
C27_IdleSleepOnlyAfterEmptyPoll ==
    [][/\ pc' = "sleeping" /\ pc # "sleeping" => pc = "polling" /\ cur' = NoTask
       /\ pc = "polling" /\ pc' # "polling" /\ cur' = NoTask => pc' = "sleeping"
       /\ TaskProcessingEnds =>
            /\ pc' # "sleeping"
            /\ ~ShutdownRequested => pc' = "polling"]_vars

\* Both tasks were claimed one after the other, one succeeded and one failed,
\* and the poll after them claimed nothing: run() is in its idle sleep.
C27_Witness ==
    /\ pc = "sleeping" /\ cur = NoTask /\ ~ShutdownRequested
    /\ \E t, u \in Tasks : exec[t] = "returned" /\ status[u] = "FAILED"

\* ------------------------------------------------- claims: process ids
\* C28: every event record made for a task carries the task's own
\* proc_inst_id, never root_proc_inst_id (the lookups use the effective id):
\* the status record enqueue_event hands to the coalescer has the
\* proc_inst_id of the row.
C28_EventsCarryOwnProcInstId ==
    enq.pc = "queued" => enq.proc_inst_id = enq.row.proc_inst_id

\* ------------------------------------------------- claims: several workers
\* The workers that are executing task t.
ExecutingWorkers(t) ==
    {i \in Workers : fleet.w[i].pc = "executing" /\ fleet.w[i].todo = t}

\* C29: with several workers polling one store, whether they claim through
\* the RPC or select the pending rows and mark them, no task is being
\* executed by two workers at the same instant.
C29_OneWorkerPerTask ==
    \A t \in Tasks : Cardinality(ExecutingWorkers(t)) <= 1

\* ------------------------------------------------- claims: re-raising
\* C30 (F): when the failure path of process_todolist_item ends, the task's
\* exception is raised again to run(), which catches it: the step that ends
\* the marking leaves the exception raised.
C30_FailureIsReRaised ==
    [][variant = "F" /\ pc = "marking" /\ pc' # "marking" =>
            exc' = exc /\ exc' # NoExc]_vars

\* ------------------------------------------------- claims: completed
\* C31: completed is terminal for the worker: once a save_task_result with
\* final = true has been applied to a task, no other write of the worker is
\* applied to it (no save with final = false, no update to FAILED).
C31_CompletedIsTerminal ==
    \A i \in 1..Len(art.log) : art.log[i] = "final" => i = Len(art.log)

\* ------------------------------------------------- claims: exit flush
\* C32 (F): when run() has returned, every status record and crew_completed
\* record the processed tasks produced has been passed to
\* record_events_bulk: none is in the buffer, none in an enqueue task that
\* has not run.
C32_NothingLeftAtReturn ==
    variant = "F" /\ pc = "returned" =>
        /\ buf = <<>> /\ PendingEnqueues = <<>>
        /\ \A i \in 1..Len(emittedSeq) : Occurrences(issued, emittedSeq[i]) > 0

\* ------------------------------------------------- claims: legacy failure
\* C33: in the legacy server the failure path is single: a task whose
\* processing raised gets one update to failed and one task_failed event:
\* no task has more than one applied mark_task_failed.
C33_LegacyFailurePathIsSingle ==
    \A t \in Tasks : fleet.claim = "select" => fleet.failed_marks[t] <= 1

\* ------------------------------------------------- claims: armed timer
\* A flush task made by the timer is waiting to start.
FlushScheduled == \E i \in 1..Len(ready) : ready[i] = FlushTask

\* C34: whenever the coalescer buffer is not empty and no flush task is
\* waiting to start, the delay timer is armed; and a timer that has expired
\* without its flush having run yet has its flush task waiting.
C34_NonEmptyBufferHasTimerOrFlush ==
    /\ buf # <<>> /\ ~FlushScheduled => timer = "armed"
    /\ timer = "fired" => FlushScheduled
    /\ timer = "none" => buf = <<>>

\* After a flush has passed records on, a new record waits in the buffer
\* with a fresh timer armed and no flush task waiting.
C34_Witness ==
    /\ buf # <<>> /\ ~FlushScheduled /\ timer = "armed"
    /\ issued # <<>> /\ liveTimers = 1

\* ------------------------------------------------- claims: claimed tasks
\* Task t has been through task processing: its execute was called, or its
\* failure path called update_task_error.
Processed(t) == exec[t] # "idle" \/ UpdateTaskErrorInvoked(t)

\* Task t has been through task processing when the step is over.
ProcessedAfterStep(t) ==
    exec'[t] # "idle" \/ failedUpdates'[t] > 0 \/ UpdateTaskError(t) \in exhausted'

\* run() is inside the processing of a task.
InTaskProcessing ==
    pc \in {"preparing", "summarizing", "executing", "err_summary", "marking", "waiting"}

\* C35 (F and S): a task the claim returned is the current task until it has
\* been through prepare and execute or the failure path, and it is handed to
\* processing once: the step that takes the claimed row starts its
\* preparation, also when shutdown was requested while the claim was in
\* flight, no task becomes current twice, and the current-task marker is
\* set exactly while a task is being processed.
C35_ClaimedTaskIsProcessedOnce ==
    /\ [](/\ \A t \in Tasks : status[t] # "pending" /\ cur # t => Processed(t)
          /\ cur # NoTask <=> InTaskProcessing)
    /\ [][/\ cur' # cur /\ cur' # NoTask =>
                /\ cur = NoTask /\ pc = "polling" /\ pc' = "preparing"
                /\ status[cur'] = "pending" /\ ~Processed(cur')
          /\ cur # NoTask /\ cur' # cur =>
                cur' = NoTask /\ ProcessedAfterStep(cur)]_vars

\* Shutdown was requested and the row the claim returned is being prepared,
\* after an earlier task was processed and the marker reset in between.
C35_Witness ==
    /\ ShutdownRequested /\ pc = "preparing" /\ cur # NoTask
    /\ \E t \in Tasks : t # cur /\ Processed(t)

\* ------------------------------------------------- claims: status polls
\* C36 (S): the watcher calls executor.cancel only after a read that
\* returned a status whose normal form is cancelled or fb_requested, and on
\* that read it does; a read that returned None (failed or empty) or any
\* other status leads to no call on the executor, the execute task or the
\* queue, and the watcher goes on sleeping and polling.
C36_CancelOnlyOnCancelRead ==
    LET n == Len(watch.reads) IN
    /\ \A i \in 1..n :
          i < n => Normalize(watch.reads[i]) \notin {"cancelled", "fb_requested"}
    /\ watch.log # <<>> <=>
          /\ n > 0 /\ watch.reads[n] # NoStatus
          /\ Normalize(watch.reads[n]) \in {"cancelled", "fb_requested"}
    /\ watch.log = <<>> <=> watch.pc \in {"sleeping", "fetching"}
    /\ watch.pc = "cancelling" => watch.log = <<"executor.cancel">>

\* A read that failed was followed by another poll, which read " Cancelled "
\* and led to the calls of the watcher.
C36_Witness ==
    /\ watch.pc = "done" /\ watch.reads = <<NoStatus, " Cancelled ">>
    /\ watch.log = <<"executor.cancel", "execute_task.cancel",
                     "event_queue.close">>

\* ------------------------------------------------- claims: the LLM client
\* C37: the client get_client() returns is made at most once: when there is
\* none it is made for the agent model in force at that call (or for the
\* default model), and once there is one no step replaces it, whatever
\* set_agent_model writes for later tasks.
C37_ClientIsCreatedOnce ==
    [][/\ prep.utils.client # "none" =>
              prep'.utils.client = prep.utils.client
       /\ prep.utils.client = "none" /\ prep'.utils.client # "none" =>
              prep'.utils.client =
                  IF prep'.utils.agent_model # "none"
                  THEN prep'.utils.agent_model ELSE "gpt-4.1-mini"]_vars

\* An earlier task left the client of m1; prepare_context of this task set
\* the agent model m2 and summarize_feedback got the client of m1.
C37_Witness ==
    /\ prep.pc = "prepared" /\ prep.feedback /\ prep.row_model = "m2"
    /\ prep.utils.agent_model = "m2" /\ prep.utils.client = "m1"

\* ------------------------------------------------- claims: event handler
\* C38 (S): when process_event_message has returned, an output event has
\* led to one save_task_result whose final flag is that of its data, a done
\* or event event to one record_event, a done event has also left no MCP
\* adapter open, an event of another type has led to no store call and has
\* left the adapters as they were, and no exception has left the call.
C38_HandlerPersistsByType ==
    handler.pc = "returned" =>
        /\ handler.evt_type = "output" =>
              handler.entered =
                  <<[kind |-> "save_task_result",
                     final |-> IsFinal(PayloadOf(handler.data))]>>
        /\ handler.evt_type \in {"done", "event"} =>
              /\ Len(handler.entered) = 1
              /\ handler.entered[1].kind = "record_event"
        /\ handler.evt_type = "done" => handler.adapters = {}
        /\ handler.evt_type \notin {"done", "output", "event"} =>
              handler.entered = <<>> /\ handler.adapters = handler.loaded
        /\ ~handler.raised

\* ------------------------------------------------- claims: the last sleep
\* C39: _async_retry sleeps after every failed attempt, the last one
\* included: while it sleeps it has slept (or is sleeping) once per call of
\* the operation and has returned nothing, the code after the loop is
\* reached from the sleep that follows the last attempt only, and a call
\* whose attempts all failed ends with the fallback's value or None after
\* as many sleeps as retries.
C39_SleepsAfterEveryFailedAttempt ==
    /\ [](/\ retry.pc = "sleeping" =>
                /\ Len(retry.slept) = retry.calls /\ retry.calls = retry.attempt
                /\ retry.result = "pending"
          /\ retry.pc \in {"final", "returned"} /\ FirstSuccess(retry) = 0 =>
                /\ Len(retry.slept) = retry.retries
                /\ retry.calls = retry.retries
          /\ retry.pc = "returned" /\ FirstSuccess(retry) = 0 =>
                retry.result \in {"fallback_value", "None"})
    /\ [][retry.pc # "final" /\ retry'.pc = "final" =>
              /\ retry.pc = "sleeping" /\ retry.attempt = retry.retries
              /\ Len(retry.slept) = retry.retries]_vars

\* Every attempt of a call with retries = Retries failed: the fallback's
\* value was returned after Retries sleeps.
C39_Witness ==
    /\ retry.pc = "returned" /\ retry.retries = Retries
    /\ FirstSuccess(retry) = 0 /\ Len(retry.slept) = Retries
    /\ retry.result = "fallback_value"
====
